---- MODULE Spec2Model ----
(***************************************************************************)
(* A model of setup-bonsai's configuration patcher: the format-preserving  *)
(* XML round trip (util.parseXml / util.xmlToString), the package-source   *)
(* merge (BonsaiEnvironment.addPackageSources) and the package upsert      *)
(* (BonsaiEnvironment.injectPackages), the typed queries and smartRemove   *)
(* of xpath-extra.ts, the modification log (modification-log.ts) and the   *)
(* action's two entry points (main.ts and post.ts) with the package cache  *)
(* between them.                                                           *)
(*                                                                         *)
(* A file's text is a sequence of tokens: the byte-order mark, the         *)
(* characters CR, LF and a run of four spaces, tags and comments.  Every   *)
(* string of the program (an attribute value, a path) is a sequence of     *)
(* atoms, so that strings can be concatenated and compared by prefix.      *)
(***************************************************************************)
EXTENDS Integers, Sequences, FiniteSets, TLC

VARIABLES
    osEOL,              \* os.EOL of the platform: "\n" or "\r\n"
    xml,                \* the text handed to parseXml by the round trip
    roundTrip,          \* xmlToString(parseXml(xml)), or NotRun
    nugetConfigFile,    \* content of NuGet.config on storage
    bonsaiConfigFile,   \* content of Bonsai.config on storage
    call,               \* the method called: addPackageSources or injectPackages
    pc,                 \* position inside the method called
    args,               \* the argument of the running call (sources or packages)
    dom,                \* the parsed document the running call mutates
    loc,                \* the locals of the running call
    error,              \* the error the call threw, or NoError
    fsLog,              \* filesystem effects of the running call, in order
    installed,          \* the package directories on disk, as local paths
    original,           \* the two files when the call started: their content,
                        \* and the children of the container parseXml gives
    isDebug,            \* core.isDebug(): step debug logging is on
    actionIsUnderTest,  \* util.actionIsUnderTest: __TEST_INVOCATION_ID is set
    files,              \* the content of the user's files, by relative path
    modificationLog,    \* the folder modification-log below the temporary path
    logged,             \* path and content of the file at every logged intent
                        \* since the folder was made
    intent,             \* the file the running call said it will modify, or ""
    calls,              \* how many calls said they will modify a file
    inputs,             \* the inputs and arguments of the invocation
    stage,              \* where the invocation is: a step of main or of post
    events,             \* what the invocation did to packages and caches, in order
    cache,              \* the package cache: service, saved state, staged tarball
    exitCode,           \* exit code of main.js: 0, or 1 once it failed
    environments,       \* the environments main loaded, by relative path
    bootstraps          \* the environments bootstrapped, with Bonsai's exit
                        \* codes, in order

callVars == <<osEOL, xml, roundTrip, nugetConfigFile, bonsaiConfigFile, call, pc, args,
              dom, loc, error, fsLog, installed, original>>
modeVars == <<isDebug, actionIsUnderTest>>
logVars == <<files, modificationLog, logged, intent, calls>>
jobVars == <<inputs, stage, events, cache, exitCode, environments, bootstraps>>

vars == <<callVars, modeVars, logVars, jobVars>>

\* A function of no file.
NoFiles == [p \in {} |-> 0]

\* No folder modification-log.
EmptyLog ==
    [exists |-> FALSE, backups |-> NoFiles, entries |-> NoFiles, modified |-> NoFiles,
     runInfo |-> FALSE]

\* The variables of the modification log and of the invocation, for the
\* specifications of a single call.
NoLog ==
    /\ files = NoFiles
    /\ modificationLog = EmptyLog
    /\ logged = <<>>
    /\ intent = ""
    /\ calls = 0
NoJob ==
    /\ isDebug = FALSE
    /\ actionIsUnderTest = FALSE
    /\ inputs = [none |-> TRUE]
    /\ stage = "none"
    /\ events = <<>>
    /\ cache = [none |-> TRUE]
    /\ exitCode = 0
    /\ environments = <<>>
    /\ bootstraps = <<>>

----------------------------------------------------------------------------
(* Tokens of a text *)

NoAttrs == <<>>

Tok(t, name, attrs, sp, data) ==
    [t |-> t, name |-> name, attrs |-> attrs, sp |-> sp, data |-> data]

BOM == Tok("bom", "", NoAttrs, 0, <<>>)
CR == Tok("cr", "", NoAttrs, 0, <<>>)
LF == Tok("lf", "", NoAttrs, 0, <<>>)
\* one space, and a run of four spaces
SP == Tok("sp", "", NoAttrs, 0, <<>>)
SP4 == Tok("sp4", "", NoAttrs, 0, <<>>)

\* <name attrs>
OpenTag(name, attrs) == Tok("open", name, attrs, 0, <<>>)
\* </name>
CloseTag(name) == Tok("close", name, NoAttrs, 0, <<>>)
\* <name attrs/> with sp spaces before the "/>"
EmptyTag(name, attrs, sp) == Tok("empty", name, attrs, sp, <<>>)
\* <!--data-->
CommentTag(data) == Tok("comment", "", NoAttrs, 0, data)

IsChar(tok) == tok.t \in {"cr", "lf", "sp", "sp4"}

RECURSIVE Flatten(_)
Flatten(ss) == IF ss = <<>> THEN <<>> ELSE Head(ss) \o Flatten(Tail(ss))

----------------------------------------------------------------------------
(* The DOM of @xmldom/xmldom, as far as the program uses it *)

ELEMENT_NODE == 1
TEXT_NODE == 3
COMMENT_NODE == 8

\* No node (JavaScript's null); node ids are positive.
Null == 0

Node(id, nodeType, nodeName, attrs, data, childNodes) ==
    [id |-> id, nodeType |-> nodeType, nodeName |-> nodeName, attrs |-> attrs,
     data |-> data, childNodes |-> childNodes]

\* Index of the close tag matching the open tag before position i, at depth d.
RECURSIVE CloseOf(_, _, _)
CloseOf(s, i, d) ==
    IF i > Len(s) THEN Len(s) + 1
    ELSE IF s[i].t = "close" THEN (IF d = 0 THEN i ELSE CloseOf(s, i + 1, d - 1))
    ELSE IF s[i].t = "open" THEN CloseOf(s, i + 1, d + 1)
    ELSE CloseOf(s, i + 1, d)

\* Last index of the run of character tokens that starts at i (within ..j).
RECURSIVE RunEnd(_, _, _)
RunEnd(s, i, j) == IF i < j /\ IsChar(s[i + 1]) THEN RunEnd(s, i + 1, j) ELSE i

\* The nodes of the tokens s[i..j]; a node's id is the index of its first token.
RECURSIVE ParseChildren(_, _, _)
ParseChildren(s, i, j) ==
    IF i > j THEN <<>>
    ELSE IF IsChar(s[i]) THEN
        LET k == RunEnd(s, i, j)
        IN  <<Node(i, TEXT_NODE, "#text", NoAttrs, SubSeq(s, i, k), <<>>)>>
                \o ParseChildren(s, k + 1, j)
    ELSE IF s[i].t = "open" THEN
        LET k == CloseOf(s, i + 1, 0)
        IN  <<Node(i, ELEMENT_NODE, s[i].name, s[i].attrs, <<>>,
                   ParseChildren(s, i + 1, k - 1))>>
                \o ParseChildren(s, k + 1, j)
    ELSE IF s[i].t = "empty" THEN
        <<Node(i, ELEMENT_NODE, s[i].name, s[i].attrs, <<>>, <<>>)>>
            \o ParseChildren(s, i + 1, j)
    ELSE IF s[i].t = "comment" THEN
        <<Node(i, COMMENT_NODE, "#comment", NoAttrs, s[i].data, <<>>)>>
            \o ParseChildren(s, i + 1, j)
    ELSE ParseChildren(s, i + 1, j)

\* An XML parser reads every line ending as a single "\n".
RECURSIVE NormalizeLineEndings(_)
NormalizeLineEndings(s) ==
    IF s = <<>> THEN <<>>
    ELSE IF Len(s) >= 2 /\ s[1].t = "cr" /\ s[2].t = "lf"
         THEN NormalizeLineEndings(Tail(s))
    ELSE IF s[1].t = "comment"
         THEN <<CommentTag(NormalizeLineEndings(s[1].data))>>
                  \o NormalizeLineEndings(Tail(s))
    ELSE <<s[1]>> \o NormalizeLineEndings(Tail(s))

\* new DOMParser().parseFromString(xml): the document element; what follows
\* its close tag (the whitespace that ends the file) is not kept.
DOMParser(s) ==
    LET n == NormalizeLineEndings(s)
        k == IF n[1].t = "open" THEN CloseOf(n, 2, 0) ELSE 1
    IN  ParseChildren(n, 1, k)[1]

\* new XMLSerializer().serializeToString(node): an element without children
\* is written as a self-closing tag, and no space precedes the "/>".
RECURSIVE XMLSerializer(_)
XMLSerializer(n) ==
    IF n.nodeType = TEXT_NODE THEN n.data
    ELSE IF n.nodeType = COMMENT_NODE THEN <<CommentTag(n.data)>>
    ELSE IF n.childNodes = <<>> THEN <<EmptyTag(n.nodeName, n.attrs, 0)>>
    ELSE <<OpenTag(n.nodeName, n.attrs)>>
            \o Flatten([k \in 1..Len(n.childNodes) |-> XMLSerializer(n.childNodes[k])])
            \o <<CloseTag(n.nodeName)>>

----------------------------------------------------------------------------
(* util.parseXml and util.xmlToString *)

\* The first match of /\r?\n/ in s from position i on, or "none".
RECURSIVE FirstEol(_, _)
FirstEol(s, i) ==
    IF i > Len(s) THEN "none"
    ELSE IF s[i].t = "lf" THEN (IF i > 1 /\ s[i - 1].t = "cr" THEN "\r\n" ELSE "\n")
    ELSE IF s[i].t = "comment" /\ FirstEol(s[i].data, 1) # "none"
         THEN FirstEol(s[i].data, 1)
    ELSE FirstEol(s, i + 1)

parseXml(text) ==
    LET hadBom == text # <<>> /\ text[1].t = "bom"
        x == IF hadBom THEN Tail(text) ELSE text
        found == FirstEol(x, 1)
    IN  [documentElement |-> DOMParser(x),
         hadBom |-> hadBom,
         endsWithNewLine |-> (x # <<>> /\ x[Len(x)].t = "lf"),
         lineEndings |-> IF found # "none" THEN found ELSE osEOL]

\* result.replaceAll('/>', ' />'): also inside the text of a comment.
RECURSIVE SpaceSelfClosing(_)
SpaceSelfClosing(s) ==
    [k \in 1..Len(s) |->
        IF s[k].t = "empty" THEN [s[k] EXCEPT !.sp = @ + 1]
        ELSE IF s[k].t = "comment" THEN [s[k] EXCEPT !.data = SpaceSelfClosing(@)]
        ELSE s[k]]

\* result.replaceAll('\n', '\r\n')
RECURSIVE CrLfEndings(_)
CrLfEndings(s) ==
    Flatten([k \in 1..Len(s) |->
        IF s[k].t = "lf" THEN <<CR, LF>>
        ELSE IF s[k].t = "comment" THEN <<[s[k] EXCEPT !.data = CrLfEndings(@)]>>
        ELSE <<s[k]>>])

IsDocument(x) == "documentElement" \in DOMAIN x

\* x is a document (with the three properties parseXml added) or a node.
xmlToString(x) ==
    LET r1 == SpaceSelfClosing(
                  XMLSerializer(IF IsDocument(x) THEN x.documentElement ELSE x))
        r2 == IF IsDocument(x) /\ x.hadBom THEN <<BOM>> \o r1 ELSE r1
        r3 == IF IsDocument(x) /\ x.endsWithNewLine THEN r2 \o <<LF>> ELSE r2
    IN  IF IsDocument(x) /\ x.lineEndings = "\r\n" THEN CrLfEndings(r3) ELSE r3

----------------------------------------------------------------------------
(* Strings and attributes *)

\* The names the documents use, lower-cased (xpath's isHtml option compares
\* element and attribute names without regard to case).
Lower(name) ==
    CASE name = "packageSources" -> "packagesources"
      [] name = "PackageConfiguration" -> "packageconfiguration"
      [] name = "Packages" -> "packages"
      [] name = "Package" -> "package"
      [] name = "Add" -> "add"
      [] name = "Clear" -> "clear"
      [] name = "AssemblyReferences" -> "assemblyreferences"
      [] name = "AssemblyReference" -> "assemblyreference"
      [] name = "AssemblyLocations" -> "assemblylocations"
      [] name = "AssemblyLocation" -> "assemblylocation"
      [] name = "LibraryFolders" -> "libraryfolders"
      [] name = "LibraryFolder" -> "libraryfolder"
      [] OTHER -> name

Attr(name, value) == <<name, value>>

\* The value of the first attribute of node n selected by @name ("" if none;
\* the callers treat a missing and an empty value alike).
RECURSIVE AttrValueIn(_, _)
AttrValueIn(attrs, name) ==
    IF attrs = <<>> THEN <<>>
    ELSE IF Lower(attrs[1][1]) = Lower(name) THEN attrs[1][2]
    ELSE AttrValueIn(Tail(attrs), name)

select1Attribute(name, n) == AttrValueIn(n.attrs, name)

----------------------------------------------------------------------------
(* DOM operations on the children of one element *)

\* Position of the child with this id, or 0.
IndexOf(children, id) ==
    IF \E k \in 1..Len(children) : children[k].id = id
    THEN CHOOSE k \in 1..Len(children) : children[k].id = id
    ELSE 0

firstChild(children) == IF children = <<>> THEN Null ELSE children[1].id

lastChild(children) == IF children = <<>> THEN Null ELSE children[Len(children)].id

nextSibling(children, id) ==
    LET k == IndexOf(children, id)
    IN  IF k = 0 \/ k = Len(children) THEN Null ELSE children[k + 1].id

previousSibling(children, id) ==
    LET k == IndexOf(children, id)
    IN  IF k <= 1 THEN Null ELSE children[k - 1].id

\* parent.insertBefore(n, ref): ref = Null appends.
insertBefore_atEnd(children, n, ref) == Append(children, n)

insertBefore(children, n, ref) ==
    IF ref = Null THEN Append(children, n)
    ELSE LET k == IndexOf(children, ref)
         IN  SubSeq(children, 1, k - 1) \o <<n>> \o SubSeq(children, k, Len(children))

\* replaceChild done as removeChild and appendChild
replaceChild_append(children, n, old) ==
    Append(SelectSeq(children, LAMBDA c : c.id # old), n)

\* parent.replaceChild(n, old)
replaceChild(children, n, old) ==
    [k \in 1..Len(children) |-> IF children[k].id = old THEN n ELSE children[k]]

\* parent.removeChild(old)
removeChild(children, old) ==
    LET k == IndexOf(children, old)
    IN  SubSeq(children, 1, k - 1) \o SubSeq(children, k + 1, Len(children))

\* The children of the document element's child with this id.
ChildrenOf(doc, parent) ==
    LET top == doc.documentElement.childNodes
    IN  top[IndexOf(top, parent)].childNodes

\* doc with the children of that element replaced.
WithChildren(doc, parent, children) ==
    [doc EXCEPT !.documentElement.childNodes =
        [k \in 1..Len(@) |->
            IF @[k].id = parent THEN [@[k] EXCEPT !.childNodes = children] ELSE @[k]]]

\* The elements root/section of the document, in document order.
Sections(doc, root, section) ==
    IF Lower(doc.documentElement.nodeName) # root THEN <<>>
    ELSE SelectSeq(doc.documentElement.childNodes,
                   LAMBDA n : n.nodeType = ELEMENT_NODE /\ Lower(n.nodeName) = section)

----------------------------------------------------------------------------
(* The texts the model starts from *)

\* Largest number of children of the container the documents are drawn with.
MaxChildren == 3

Str(a) == <<a>>

\* <add key="k" value="old-k" />
AddEntry(k) == [kind |-> "element", name |-> "add", data |-> <<>>,
                attrs |-> <<Attr("key", Str(k)), Attr("value", <<"old", k>>)>>]
\* <clear />
ClearEntry == [kind |-> "element", name |-> "clear", data |-> <<>>, attrs |-> NoAttrs]
\* an element the source list does not define
OtherEntry == [kind |-> "element", name |-> "disabled", data |-> <<>>, attrs |-> NoAttrs]
\* a line break followed by the indentation of an entry; the line break is
\* the document's, or the one given as data
IndentText == [kind |-> "text", name |-> "", data |-> <<>>, attrs |-> NoAttrs]
LfText == [IndentText EXCEPT !.data = <<LF>>]
CrLfText == [IndentText EXCEPT !.data = <<CR, LF>>]
\* <!-- <add key="k" value="old-k" /> -->, an entry somebody disabled
DisabledEntry(k) ==
    [kind |-> "comment", name |-> "", attrs |-> NoAttrs,
     data |-> <<SP, EmptyTag("add", AddEntry(k).attrs, 1), SP>>]

\* The tokens of one item, in a text with this line ending and this many
\* spaces before each "/>".
ItemTokens(item, eol, sp) ==
    IF item.kind = "text"
    THEN (IF item.data # <<>> THEN item.data
          ELSE IF eol = "\r\n" THEN <<CR, LF>> ELSE <<LF>>) \o <<SP4>>
    ELSE IF item.kind = "comment" THEN <<CommentTag(item.data)>>
    ELSE <<EmptyTag(item.name, item.attrs, sp)>>

\* <name>items</name>; for no items <name /> or, as a pair, <name></name>
ElementTokens(name, items, fmt) ==
    IF items = <<>> /\ ~fmt.pair THEN <<EmptyTag(name, NoAttrs, fmt.sp)>>
    ELSE <<OpenTag(name, NoAttrs)>>
            \o Flatten([k \in 1..Len(items) |-> ItemTokens(items[k], fmt.eol, fmt.sp)])
            \o <<CloseTag(name)>>

\* The text of a document: the root, its sections (each a sequence of
\* items) and the formatting fmt = [bom, eol, sp, nl, pair].
DocumentText(root, names, sections, fmt) ==
    (IF fmt.bom THEN <<BOM>> ELSE <<>>)
        \o (IF sections = <<>> THEN <<EmptyTag(root, NoAttrs, fmt.sp)>>
            ELSE <<OpenTag(root, NoAttrs)>>
                    \o Flatten([k \in 1..Len(sections) |->
                           ElementTokens(names[k], sections[k], fmt)])
                    \o <<CloseTag(root)>>)
        \o Flatten([k \in 1..fmt.nl |-> IF fmt.eol = "\r\n" THEN <<CR, LF>> ELSE <<LF>>])

\* All sequences over S of length at most n.
SeqsUpTo(S, n) == UNION {[1..k -> S] : k \in 0..n}

\* The formatting of a file as .NET's XML writer leaves it: no byte-order
\* mark, "\n", one space before "/>", one line break at the end.
PlainFormat == [bom |-> FALSE, eol |-> "\n", sp |-> 1, nl |-> 1, pair |-> FALSE]

Formats == [bom : BOOLEAN, eol : {"\n", "\r\n"}, sp : 0..2, nl : 0..2, pair : BOOLEAN]

\* Well-formed texts of a source list, in every formatting.
XmlItems == {IndentText, LfText, CrLfText, AddEntry("A"), DisabledEntry("A")}

XmlTexts ==
    {DocumentText("configuration", <<"packageSources">>, <<items>>, fmt) :
        items \in SeqsUpTo(XmlItems, MaxChildren), fmt \in Formats}

----------------------------------------------------------------------------
(* The round trip of a text through parseXml and xmlToString *)

NotRun == <<Tok("notrun", "", NoAttrs, 0, <<>>)>>
NoDoc == [none |-> TRUE]
NoLocals == [none |-> TRUE]

InitXml ==
    /\ osEOL \in {"\n", "\r\n"}
    /\ xml \in XmlTexts
    /\ roundTrip = NotRun
    /\ nugetConfigFile = <<>>
    /\ bonsaiConfigFile = <<>>
    /\ call = "none"
    /\ pc = "xml"
    /\ args = <<>>
    /\ dom = NoDoc
    /\ loc = NoLocals
    /\ error = "none"
    /\ fsLog = <<>>
    /\ installed = {}
    /\ original = <<>>
    /\ NoLog
    /\ NoJob

RoundTrip ==
    /\ pc = "xml"
    /\ roundTrip = NotRun
    /\ roundTrip' = xmlToString(parseXml(xml))
    /\ UNCHANGED <<modeVars, logVars, jobVars>>
    /\ UNCHANGED <<osEOL, xml, nugetConfigFile, bonsaiConfigFile, call, pc, args,
                   dom, loc, error, fsLog, installed, original>>

NextXml == RoundTrip

SpecXml == InitXml /\ [][NextXml]_vars

----------------------------------------------------------------------------
(* BonsaiEnvironment.addPackageSources *)

\* Largest number of sources handed to one addPackageSources call.
MaxSources == 2

\* new NuGetPackageSource(name, url, allowUpdate): name and url are not empty.
NuGetPackageSource(k, allowUpdate) ==
    [name |-> Str(k), url |-> <<"new", k>>, allowUpdate |-> allowUpdate]

\* The sources of the calls: A with and without allowUpdate, and B.
Sources ==
    {NuGetPackageSource("A", TRUE), NuGetPackageSource("A", FALSE),
     NuGetPackageSource("B", TRUE)}

SourceLists == SeqsUpTo(Sources, MaxSources)

\* NuGet.config files: no <packageSources>, one, or two of them.
NuGetItems ==
    {IndentText, AddEntry("A"), AddEntry("B"), ClearEntry, OtherEntry, DisabledEntry("A")}

NuGetConfigs ==
    {DocumentText("configuration", <<>>, <<>>, PlainFormat)}
    \cup {DocumentText("configuration", <<"packageSources">>, <<items>>, PlainFormat) :
            items \in SeqsUpTo(NuGetItems, MaxChildren)}
    \cup {DocumentText("configuration", <<"packageSources", "packageSources">>,
                       <<items, <<IndentText, ClearEntry>> >>, PlainFormat) :
            items \in SeqsUpTo(NuGetItems, MaxChildren - 1)}

Event(op, path) == [op |-> op, path |-> path]

NuGetConfigPath == <<"NuGet.config">>
BonsaiConfigPath == <<"Bonsai.config">>

\* //configuration/packageSources
packageSourcesSelector(doc) == Sections(doc, "configuration", "packagesources")

\* //configuration/packageSources/text(): the text children of every
\* <packageSources>, in document order.
packageSourcesIndentSelector(doc) ==
    LET cs == packageSourcesSelector(doc)
    IN  SelectSeq(Flatten([k \in 1..Len(cs) |-> cs[k].childNodes]),
                  LAMBDA n : n.nodeType = TEXT_NODE)

\* clear[1] for clear[last()]
LastClear_first(c) ==
    LET ks == {k \in 1..Len(c.childNodes) :
                  /\ c.childNodes[k].nodeType = ELEMENT_NODE
                  /\ Lower(c.childNodes[k].nodeName) = "clear"}
    IN  IF ks = {} THEN <<>>
        ELSE << <<c.childNodes[CHOOSE k \in ks : \A j \in ks : k <= j].id, c.id>> >>

\* The last <clear> child of one element, as <<node id, parent id>>.
LastClear(c) ==
    LET ks == {k \in 1..Len(c.childNodes) :
                  /\ c.childNodes[k].nodeType = ELEMENT_NODE
                  /\ Lower(c.childNodes[k].nodeName) = "clear"}
    IN  IF ks = {} THEN <<>>
        ELSE << <<c.childNodes[CHOOSE k \in ks : \A j \in ks : j <= k].id, c.id>> >>

\* //configuration/packageSources/clear[last()]: the last <clear> of every
\* <packageSources>, in document order.
lastClearSourceSelector(doc) ==
    LET cs == packageSourcesSelector(doc)
    IN  Flatten([k \in 1..Len(cs) |-> LastClear(cs[k])])

Outcome(e, d, l) == [error |-> e, dom |-> d, loc |-> l]

\* Lines 70-123: read and parse the file, find the container, the reference
\* indentation and the insertion point.
LocateSources(file) ==
    LET nugetConfig == parseXml(file)
        containers == packageSourcesSelector(nugetConfig)
        indents == packageSourcesIndentSelector(nugetConfig)
        clears == lastClearSourceSelector(nugetConfig)
    IN  IF containers = <<>> THEN Outcome("MissingContainer", nugetConfig, NoLocals)
        ELSE
        LET packageSourcesNode == containers[1]
            referenceIndentation ==
                IF indents # <<>> THEN indents[1].data ELSE <<LF, SP4>>
            lastClear == IF clears # <<>> THEN clears[1] ELSE <<Null, Null>>
            insertionPoint ==
                IF lastClear[1] # Null
                THEN nextSibling(ChildrenOf(nugetConfig, lastClear[2]), lastClear[1])
                ELSE firstChild(packageSourcesNode.childNodes)
            asserted ==
                \/ lastClear[1] = Null
                \/ /\ insertionPoint # Null
                   /\ lastClear[2] = packageSourcesNode.id
                \/ /\ insertionPoint = Null
                   /\ lastChild(packageSourcesNode.childNodes) = lastClear[1]
        IN  IF ~asserted THEN Outcome("AssertionError", nugetConfig, NoLocals)
            ELSE Outcome("none", nugetConfig,
                    [packageSourcesNode |-> packageSourcesNode.id,
                     referenceIndentation |-> referenceIndentation,
                     insertionPoint |-> insertionPoint,
                     i |-> 1,
                     newSources |-> <<>>,
                     node |-> insertionPoint,
                     nextId |-> Len(file) + 1])

\* the indentation inserted before the insertion point, not before the entry
AddSource_indentAfter(doc, l, source) ==
    IF \E k \in 1..Len(l.newSources) : l.newSources[k].name = source.name
    THEN Outcome("DuplicateSourceName", doc, l)
    ELSE
    LET newSource == Node(l.nextId, ELEMENT_NODE, "add",
                          <<Attr("key", source.name), Attr("value", source.url)>>,
                          <<>>, <<>>)
        indentation == Node(l.nextId + 1, TEXT_NODE, "#text", NoAttrs,
                            l.referenceIndentation, <<>>)
        c0 == ChildrenOf(doc, l.packageSourcesNode)
        c1 == insertBefore(c0, newSource, l.insertionPoint)
        c2 == insertBefore(c1, indentation, l.insertionPoint)
    IN  Outcome("none", WithChildren(doc, l.packageSourcesNode, c2),
                [l EXCEPT !.i = @ + 1,
                          !.newSources = Append(@, source),
                          !.nextId = @ + 2])

\* the new entry inserted after the insertion point, where the walk passes
AddSource_afterAnchor(doc, l, source) ==
    IF \E k \in 1..Len(l.newSources) : l.newSources[k].name = source.name
    THEN Outcome("DuplicateSourceName", doc, l)
    ELSE
    LET newSource == Node(l.nextId, ELEMENT_NODE, "add",
                          <<Attr("key", source.name), Attr("value", source.url)>>,
                          <<>>, <<>>)
        indentation == Node(l.nextId + 1, TEXT_NODE, "#text", NoAttrs,
                            l.referenceIndentation, <<>>)
        c0 == ChildrenOf(doc, l.packageSourcesNode)
        c1 == insertBefore(c0, newSource, nextSibling(c0, l.insertionPoint))
        c2 == insertBefore(c1, indentation, newSource.id)
    IN  Outcome("none", WithChildren(doc, l.packageSourcesNode, c2),
                [l EXCEPT !.i = @ + 1,
                          !.newSources = Append(@, source),
                          !.nextId = @ + 2])

\* the new entry put in the place of the insertion point
AddSource_overAnchor(doc, l, source) ==
    IF \E k \in 1..Len(l.newSources) : l.newSources[k].name = source.name
    THEN Outcome("DuplicateSourceName", doc, l)
    ELSE
    LET newSource == Node(l.nextId, ELEMENT_NODE, "add",
                          <<Attr("key", source.name), Attr("value", source.url)>>,
                          <<>>, <<>>)
        indentation == Node(l.nextId + 1, TEXT_NODE, "#text", NoAttrs,
                            l.referenceIndentation, <<>>)
        c0 == ChildrenOf(doc, l.packageSourcesNode)
        c1 == IF l.insertionPoint = Null THEN Append(c0, newSource)
              ELSE replaceChild(c0, newSource, l.insertionPoint)
        c2 == insertBefore(c1, indentation, newSource.id)
    IN  Outcome("none", WithChildren(doc, l.packageSourcesNode, c2),
                [l EXCEPT !.i = @ + 1,
                          !.newSources = Append(@, source),
                          !.nextId = @ + 2])

\* Lines 127-139: one turn of the loop that adds the sources.
AddSource(doc, l, source) ==
    IF \E k \in 1..Len(l.newSources) : l.newSources[k].name = source.name
    THEN Outcome("DuplicateSourceName", doc, l)
    ELSE
    LET newSource == Node(l.nextId, ELEMENT_NODE, "add",
                          <<Attr("key", source.name), Attr("value", source.url)>>,
                          <<>>, <<>>)
        indentation == Node(l.nextId + 1, TEXT_NODE, "#text", NoAttrs,
                            l.referenceIndentation, <<>>)
        c0 == ChildrenOf(doc, l.packageSourcesNode)
        c1 == insertBefore(c0, newSource, l.insertionPoint)
        c2 == insertBefore(c1, indentation, newSource.id)
    IN  Outcome("none", WithChildren(doc, l.packageSourcesNode, c2),
                [l EXCEPT !.i = @ + 1,
                          !.newSources = Append(@, source),
                          !.nextId = @ + 2])

\* the walk without the test of allowUpdate
RemoveReplaced_unchecked(doc, l) ==
    LET c0 == ChildrenOf(doc, l.packageSourcesNode)
        node == c0[IndexOf(c0, l.node)]
        name == select1Attribute("key", node)
        advance == Outcome("none", doc, [l EXCEPT !.node = nextSibling(c0, l.node)])
    IN  IF node.nodeType # ELEMENT_NODE THEN advance
        ELSE IF node.nodeName # "add" THEN Outcome("MalformedContainer", doc, l)
        ELSE IF name = <<>> THEN Outcome("MalformedContainer", doc, l)
        ELSE IF \E k \in 1..Len(l.newSources) : l.newSources[k].name = name
        THEN
            LET commentedNode ==
                    Node(l.nextId, COMMENT_NODE, "#comment", NoAttrs,
                         <<SP>> \o xmlToString(node) \o <<SP>>, <<>>)
                c1 == replaceChild(c0, commentedNode, node.id)
            IN  Outcome("none", WithChildren(doc, l.packageSourcesNode, c1),
                        [l EXCEPT !.node = nextSibling(c1, commentedNode.id),
                                  !.nextId = @ + 1])
        ELSE advance

\* the walk removing the replaced entry instead of commenting it out
RemoveReplaced_removing(doc, l) ==
    LET c0 == ChildrenOf(doc, l.packageSourcesNode)
        node == c0[IndexOf(c0, l.node)]
        name == select1Attribute("key", node)
        advance == Outcome("none", doc, [l EXCEPT !.node = nextSibling(c0, l.node)])
    IN  IF node.nodeType # ELEMENT_NODE THEN advance
        ELSE IF node.nodeName # "add" THEN Outcome("MalformedContainer", doc, l)
        ELSE IF name = <<>> THEN Outcome("MalformedContainer", doc, l)
        ELSE IF \E k \in 1..Len(l.newSources) : l.newSources[k].name = name
        THEN
            LET newSource ==
                    l.newSources[CHOOSE k \in 1..Len(l.newSources) :
                                     l.newSources[k].name = name]
            IN  IF ~newSource.allowUpdate THEN Outcome("UpdateNotAllowed", doc, l)
                ELSE Outcome("none",
                             WithChildren(doc, l.packageSourcesNode,
                                          removeChild(c0, node.id)),
                             [l EXCEPT !.node = nextSibling(c0, l.node)])
        ELSE advance

\* Lines 142-169: one turn of the loop that walks the older siblings.
RemoveReplaced(doc, l) ==
    LET c0 == ChildrenOf(doc, l.packageSourcesNode)
        node == c0[IndexOf(c0, l.node)]
        name == select1Attribute("key", node)
        advance == Outcome("none", doc, [l EXCEPT !.node = nextSibling(c0, l.node)])
    IN  IF node.nodeType # ELEMENT_NODE THEN advance
        ELSE IF node.nodeName # "add" THEN Outcome("MalformedContainer", doc, l)
        ELSE IF name = <<>> THEN Outcome("MalformedContainer", doc, l)
        ELSE IF \E k \in 1..Len(l.newSources) : l.newSources[k].name = name
        THEN
            LET newSource ==
                    l.newSources[CHOOSE k \in 1..Len(l.newSources) :
                                     l.newSources[k].name = name]
                commentedNode ==
                    Node(l.nextId, COMMENT_NODE, "#comment", NoAttrs,
                         <<SP>> \o xmlToString(node) \o <<SP>>, <<>>)
                c1 == replaceChild(c0, commentedNode, node.id)
            IN  IF ~newSource.allowUpdate THEN Outcome("UpdateNotAllowed", doc, l)
                ELSE Outcome("none", WithChildren(doc, l.packageSourcesNode, c1),
                             [l EXCEPT !.node = nextSibling(c1, commentedNode.id),
                                       !.nextId = @ + 1])
        ELSE advance

\* The call's state after a step with this outcome; next is the position
\* the call goes on from when nothing was thrown.
Continue(o, next) ==
    /\ pc' = IF o.error = "none" THEN next ELSE "failed"
    /\ error' = o.error
    /\ dom' = o.dom
    /\ loc' = o.loc

addPackageSources(sources) ==
    /\ pc = "idle"
    /\ call' = "addPackageSources"
    /\ args' = sources
    /\ IF Len(sources) < 1
       THEN /\ Continue(Outcome("EmptyInput", NoDoc, NoLocals), "failed")
            /\ UNCHANGED fsLog
       ELSE /\ \E o \in {LocateSources(nugetConfigFile)} : Continue(o, "addSources")
            /\ fsLog' = fsLog \o <<Event("logFileModificationIntent", NuGetConfigPath),
                                   Event("readFileSync", NuGetConfigPath)>>
    /\ UNCHANGED <<modeVars, logVars, jobVars>>
    /\ UNCHANGED <<osEOL, xml, roundTrip, nugetConfigFile, bonsaiConfigFile,
                   installed, original>>

\* the file written in every turn of the loop
addPackageSources_add_writing ==
    /\ pc = "addSources"
    /\ \E o \in {AddSource(dom, loc, args[loc.i])} :
            /\ Continue(o, IF loc.i = Len(args) THEN "removeReplaced" ELSE "addSources")
            /\ nugetConfigFile' = xmlToString(o.dom)
    /\ UNCHANGED <<modeVars, logVars, jobVars>>
    /\ UNCHANGED <<osEOL, xml, roundTrip, bonsaiConfigFile, call, args, fsLog,
                   installed, original>>

addPackageSources_add ==
    /\ pc = "addSources"
    /\ \E o \in {AddSource(dom, loc, args[loc.i])} :
            Continue(o, IF loc.i = Len(args) THEN "removeReplaced" ELSE "addSources")
    /\ UNCHANGED <<modeVars, logVars, jobVars>>
    /\ UNCHANGED <<osEOL, xml, roundTrip, nugetConfigFile, bonsaiConfigFile, call,
                   args, fsLog, installed, original>>

addPackageSources_remove ==
    /\ pc = "removeReplaced"
    /\ loc.node # Null
    /\ \E o \in {RemoveReplaced(dom, loc)} : Continue(o, "removeReplaced")
    /\ UNCHANGED <<modeVars, logVars, jobVars>>
    /\ UNCHANGED <<osEOL, xml, roundTrip, nugetConfigFile, bonsaiConfigFile, call,
                   args, fsLog, installed, original>>

\* Lines 171-173: the walk is over; serialize and write.
addPackageSources_write ==
    /\ pc = "removeReplaced"
    /\ loc.node = Null
    /\ nugetConfigFile' = xmlToString(dom)
    /\ fsLog' = Append(fsLog, Event("writeFileSync", NuGetConfigPath))
    /\ pc' = "done"
    /\ UNCHANGED <<modeVars, logVars, jobVars>>
    /\ UNCHANGED <<osEOL, xml, roundTrip, bonsaiConfigFile, call, args, dom, loc,
                   error, installed, original>>

----------------------------------------------------------------------------
(* xpath.smartRemove *)

\* the sibling before the node goes with it, whatever it is
smartRemove_anySibling(children, id) ==
    LET textSibling == previousSibling(children, id)
        c1 == IF textSibling # Null THEN removeChild(children, textSibling)
              ELSE children
    IN  removeChild(c1, id)

\* Lines 171-176 of xpath-extra.ts, on the children of the node's parent:
\* the text node just before the node goes with it.
smartRemove(children, id) ==
    LET k == IndexOf(children, id)
        textSibling == previousSibling(children, id)
        c1 == IF textSibling # Null /\ children[k - 1].nodeType = TEXT_NODE
              THEN removeChild(children, textSibling)
              ELSE children
    IN  removeChild(c1, id)

----------------------------------------------------------------------------
(* BonsaiEnvironment.injectPackages *)

\* Largest number of packages handed to one injectPackages call.
MaxPackages == 2

\* s.toUpperCase(), atom by atom
ToUpperCase(s) ==
    [k \in 1..Len(s) |->
        CASE s[k] = "Foo" -> "FOO"
          [] s[k] = "foo" -> "FOO"
          [] s[k] = "Bar" -> "BAR"
          [] s[k] = "New" -> "NEW"
          [] OTHER -> s[k]]

\* s.replaceAll('\\', '/'), and XPath's translate(s, "\\", "/")
ForwardSlashes(s) == [k \in 1..Len(s) |-> IF s[k] = "\\" THEN "/" ELSE s[k]]

\* starts-with(s, prefix)
StartsWith(s, prefix) ==
    Len(prefix) <= Len(s) /\ SubSeq(s, 1, Len(prefix)) = prefix

\* path.sep of the platform
PathSep == IF osEOL = "\r\n" THEN "\\" ELSE "/"

\* A local package: its id and its version, as the nuspec spells them.
LocalNuGetPackage(id, version) == [id |-> Str(id), version |-> Str(version)]

PackageLists ==
    SeqsUpTo({LocalNuGetPackage("Foo", "2.0"), LocalNuGetPackage("foo", "2.0"),
              LocalNuGetPackage("New", "1.0")}, MaxPackages)

\* <Package id="id" version="1.0" />
PackageEntry(id) ==
    [kind |-> "element", name |-> "Package", data |-> <<>>,
     attrs |-> <<Attr("id", Str(id)), Attr("version", Str("1.0"))>>]

\* <AssemblyLocation assemblyName="name" location="Packages{sep}id.1.0{sep}lib{sep}name.dll" />
AssemblyLocationEntry(name, id, sep) ==
    [kind |-> "element", name |-> "AssemblyLocation", data |-> <<>>,
     attrs |-> <<Attr("assemblyName", Str(name)),
                 Attr("location", <<"Packages", sep, id, ".", "1.0", sep, "lib", sep,
                                    name, ".dll">>)>>]

\* <AssemblyReference assemblyName="name" />
AssemblyReferenceEntry(name) ==
    [kind |-> "element", name |-> "AssemblyReference", data |-> <<>>,
     attrs |-> <<Attr("assemblyName", Str(name))>>]

\* <LibraryFolder path="Packages{sep}id.1.0{sep}build{sep}bin" />
LibraryFolderEntry(id, sep) ==
    [kind |-> "element", name |-> "LibraryFolder", data |-> <<>>,
     attrs |-> <<Attr("path", <<"Packages", sep, id, ".", "1.0", sep, "build", sep,
                                "bin">>)>>]

\* <AssemblyLocation location="Packages{sep}id.1.0{sep}lib{sep}native.dll" />:
\* a location that names no assembly.
UnnamedLocationEntry(id, sep) ==
    [kind |-> "element", name |-> "AssemblyLocation", data |-> <<>>,
     attrs |-> <<Attr("location", <<"Packages", sep, id, ".", "1.0", sep, "lib", sep,
                                    "native", ".dll">>)>>]

\* The records of a package in the directory id.1.0.1, a name that begins
\* with id.1.0.
PatchLocationEntry(name, id, sep) ==
    [kind |-> "element", name |-> "AssemblyLocation", data |-> <<>>,
     attrs |-> <<Attr("assemblyName", Str(name)),
                 Attr("location", <<"Packages", sep, id, ".", "1.0", ".1", sep, "lib",
                                    sep, name, ".dll">>)>>]
PatchFolderEntry(id, sep) ==
    [kind |-> "element", name |-> "LibraryFolder", data |-> <<>>,
     attrs |-> <<Attr("path", <<"Packages", sep, id, ".", "1.0", ".1", sep, "build",
                                sep, "bin">>)>>]

BonsaiItems == {IndentText, PackageEntry("Foo"), PackageEntry("Bar")}

SectionNames ==
    <<"Packages", "AssemblyReferences", "AssemblyLocations", "LibraryFolders">>

\* What Bonsai recorded for the packages Foo 1.0 and Bar 1.0 and for a
\* package in Foo.1.0.1 with the assembly Baz.
References ==
    <<IndentText, AssemblyReferenceEntry("Foo"), IndentText,
      AssemblyReferenceEntry("Bar"), IndentText, AssemblyReferenceEntry("Baz"),
      IndentText, AssemblyReferenceEntry("Foo")>>
Locations ==
    <<IndentText, AssemblyLocationEntry("Foo", "Foo", "/"), IndentText,
      AssemblyLocationEntry("Bar", "Bar", "\\"), IndentText,
      PatchLocationEntry("Baz", "Foo", "/"), IndentText,
      UnnamedLocationEntry("Foo", "\\")>>
Folders ==
    <<IndentText, LibraryFolderEntry("Foo", "\\"), IndentText,
      PatchFolderEntry("Foo", "/"), IndentText, LibraryFolderEntry("Bar", "/")>>

\* Bonsai.config files: no <Packages>, one, or two of them.
BonsaiConfigs ==
    {DocumentText("PackageConfiguration", <<>>, <<>>, PlainFormat)}
    \cup {DocumentText("PackageConfiguration", SectionNames,
                       <<items, References, Locations, Folders>>, PlainFormat) :
            items \in SeqsUpTo(BonsaiItems, MaxChildren)}
    \cup {DocumentText("PackageConfiguration", <<"Packages", "Packages">>,
                       <<items, <<IndentText, PackageEntry("Foo")>> >>, PlainFormat) :
            items \in SeqsUpTo(BonsaiItems, MaxChildren - 1)}

\* //PackageConfiguration/Packages
bonsaiConfigPackagesSelector(doc) == Sections(doc, "packageconfiguration", "packages")

\* //PackageConfiguration/Packages/text()
bonsaiConfigPackagesIndentSelector(doc) ==
    LET cs == bonsaiConfigPackagesSelector(doc)
    IN  SelectSeq(Flatten([k \in 1..Len(cs) |-> cs[k].childNodes]),
                  LAMBDA n : n.nodeType = TEXT_NODE)

\* The children named child of every root/section element, each with the
\* id of its parent, in document order.
ChildElements(doc, root, section, child) ==
    LET cs == Sections(doc, root, section)
    IN  Flatten([k \in 1..Len(cs) |->
            LET es == SelectSeq(cs[k].childNodes,
                        LAMBDA n : n.nodeType = ELEMENT_NODE /\ Lower(n.nodeName) = child)
            IN  [j \in 1..Len(es) |-> [node |-> es[j], parent |-> cs[k].id]]])

\* //PackageConfiguration/Packages/Package[@id=$packageId]
packageSelector(doc, packageId) ==
    SelectSeq(ChildElements(doc, "packageconfiguration", "packages", "package"),
              LAMBDA e : select1Attribute("id", e.node) = packageId)

\* //PackageConfiguration/AssemblyLocations/AssemblyLocation[
\*     starts-with(translate(@location, "\\", "/"), $packageLocation)]
assemblyLocationsByPackageLocationSelector(doc, packageLocation) ==
    SelectSeq(ChildElements(doc, "packageconfiguration", "assemblylocations",
                            "assemblylocation"),
              LAMBDA e : StartsWith(ForwardSlashes(select1Attribute("location", e.node)),
                                    packageLocation))

libraryFolderByPackageLocationSelector_untranslated(doc, packageLocation) ==
    SelectSeq(ChildElements(doc, "packageconfiguration", "libraryfolders",
                            "libraryfolder"),
              LAMBDA e : StartsWith(select1Attribute("path", e.node), packageLocation))

\* //PackageConfiguration/LibraryFolders/LibraryFolder[
\*     starts-with(translate(@path, "\\", "/"), $packageLocation)]
libraryFolderByPackageLocationSelector(doc, packageLocation) ==
    SelectSeq(ChildElements(doc, "packageconfiguration", "libraryfolders",
                            "libraryfolder"),
              LAMBDA e : StartsWith(ForwardSlashes(select1Attribute("path", e.node)),
                                    packageLocation))

\* //PackageConfiguration/AssemblyReferences/AssemblyReference[@assemblyName=$assemblyName]
assemblyReferencesByNameSelector(doc, assemblyName) ==
    SelectSeq(ChildElements(doc, "packageconfiguration", "assemblyreferences",
                            "assemblyreference"),
              LAMBDA e : select1Attribute("assemblyName", e.node) = assemblyName)

\* doc after smartRemove of each of these elements, in order.
RECURSIVE RemoveAll(_, _)
RemoveAll(doc, es) ==
    IF es = <<>> THEN doc
    ELSE RemoveAll(WithChildren(doc, es[1].parent,
                       smartRemove(ChildrenOf(doc, es[1].parent), es[1].node.id)),
                   Tail(es))

\* Lines 413-435: each related <AssemblyLocation> is removed, and with it
\* the <AssemblyReference>s of its assembly.
RECURSIVE RemoveAssemblyLocations(_, _)
RemoveAssemblyLocations(doc, es) ==
    IF es = <<>> THEN doc
    ELSE
    LET assemblyName == select1Attribute("assemblyName", es[1].node)
        d1 == RemoveAll(doc, <<es[1]>>)
        d2 == IF assemblyName # <<>>
              THEN RemoveAll(d1, assemblyReferencesByNameSelector(d1, assemblyName))
              ELSE d1
    IN  RemoveAssemblyLocations(d2, Tail(es))

\* Lines 343-368: read and parse the file, find the container, the reference
\* indentation and the insertion point.
LocatePackages(file) ==
    LET bonsaiConfig == parseXml(file)
        containers == bonsaiConfigPackagesSelector(bonsaiConfig)
        indents == bonsaiConfigPackagesIndentSelector(bonsaiConfig)
    IN  IF containers = <<>> THEN Outcome("MissingContainer", bonsaiConfig, NoLocals)
        ELSE
        LET packagesNode == containers[1]
            last == lastChild(packagesNode.childNodes)
            insertionPoint ==
                IF last # Null
                   /\ packagesNode.childNodes[Len(packagesNode.childNodes)].nodeType
                          = TEXT_NODE
                THEN last ELSE Null
        IN  Outcome("none", bonsaiConfig,
                [packagesNode |-> packagesNode.id,
                 referenceIndentation |->
                     IF indents # <<>> THEN indents[1].data ELSE <<LF, SP4>>,
                 insertionPoint |-> insertionPoint,
                 i |-> 1,
                 nextId |-> Len(file) + 1])

\* path.join(this.packagesPath, `${replaceId}.${replaceVersion}`), written
\* from the environment's root on: the directory of the installed package.
replacePackagePath(replaceId, replaceVersion) ==
    <<"Packages", PathSep>> \o replaceId \o <<".">> \o replaceVersion

replacePackagePathLocal_native(replaceId, replaceVersion) ==
    replacePackagePath(replaceId, replaceVersion) \o <<"/">>

replacePackagePathLocal_open(replaceId, replaceVersion) ==
    ForwardSlashes(replacePackagePath(replaceId, replaceVersion))

\* The same path relative to the environment, with forward slashes and a
\* final one (line 390).
replacePackagePathLocal(replaceId, replaceVersion) ==
    ForwardSlashes(replacePackagePath(replaceId, replaceVersion)) \o <<"/">>

\* What one turn of the loop leaves: the error, the tree, the locals, the
\* directory it looked for on disk and the prefix of its cleanup (<<>> for
\* a turn that replaced nothing).
InjectOutcome(e, d, l, dir, path) ==
    [error |-> e, dom |-> d, loc |-> l, dir |-> dir, path |-> path]

\* Lines 373-451: one turn of the loop over the packages.
InjectPackage(doc, l, nugetPackage) ==
    LET injectedNode == Node(l.nextId, ELEMENT_NODE, "Package",
                             <<Attr("id", nugetPackage.id),
                               Attr("version", nugetPackage.version)>>, <<>>, <<>>)
        found == packageSelector(doc, nugetPackage.id)
        c0 == ChildrenOf(doc, l.packagesNode)
    IN  IF found # <<>> THEN
            LET replaceNode == found[1]
                replaceId == select1Attribute("id", replaceNode.node)
                replaceVersion == select1Attribute("version", replaceNode.node)
                dir == replacePackagePath(replaceId, replaceVersion)
                local == replacePackagePathLocal(replaceId, replaceVersion)
                d1 == WithChildren(doc, l.packagesNode,
                          replaceChild(c0, injectedNode, replaceNode.node.id))
                d2 == RemoveAssemblyLocations(d1,
                          assemblyLocationsByPackageLocationSelector(d1, local))
                d3 == RemoveAll(d2, libraryFolderByPackageLocationSelector(d2, local))
                l1 == [l EXCEPT !.i = @ + 1, !.nextId = @ + 1]
            IN  IF replaceId = <<>> \/ replaceVersion = <<>>
                   \/ ToUpperCase(nugetPackage.id) # ToUpperCase(replaceId)
                THEN InjectOutcome("AssertionError", doc, l, <<>>, <<>>)
                ELSE IF replaceNode.parent # l.packagesNode
                THEN InjectOutcome("NotFoundError", doc, l, dir, local)
                ELSE InjectOutcome("none", d3, l1, dir, local)
        ELSE
            LET indentation == Node(l.nextId + 1, TEXT_NODE, "#text", NoAttrs,
                                    l.referenceIndentation, <<>>)
                c1 == insertBefore(c0, injectedNode, l.insertionPoint)
                c2 == insertBefore(c1, indentation, injectedNode.id)
            IN  InjectOutcome("none", WithChildren(doc, l.packagesNode, c2),
                              [l EXCEPT !.i = @ + 1, !.nextId = @ + 2], <<>>, <<>>)

injectPackages(nugetPackages) ==
    /\ pc = "idle"
    /\ call' = "injectPackages"
    /\ args' = nugetPackages
    /\ \E o \in {LocatePackages(bonsaiConfigFile)} :
            Continue(o, IF nugetPackages = <<>> THEN "writePackages" ELSE "injectPackages")
    /\ fsLog' = fsLog \o <<Event("logFileModificationIntent", BonsaiConfigPath),
                           Event("readFileSync", BonsaiConfigPath)>>
    /\ UNCHANGED <<modeVars, logVars, jobVars>>
    /\ UNCHANGED <<osEOL, xml, roundTrip, nugetConfigFile, bonsaiConfigFile,
                   installed, original>>

injectPackages_inject_strict ==
    /\ pc = "injectPackages"
    /\ \E o \in {InjectPackage(dom, loc, args[loc.i])} :
           IF o.dir # <<>> /\ o.dir \notin installed
           THEN /\ pc' = "failed"
                /\ error' = "ENOENT"
                /\ fsLog' = Append(fsLog, Event("rmSync", o.dir))
                /\ UNCHANGED <<dom, loc, installed>>
           ELSE /\ Continue(o, IF loc.i = Len(args) THEN "writePackages"
                               ELSE "injectPackages")
                /\ fsLog' = fsLog
                      \o (IF o.dir = <<>> THEN <<>> ELSE <<Event("rmSync", o.dir)>>)
                      \o (IF o.error = "none" /\ o.path # <<>>
                          THEN <<Event("debug", o.path)>> ELSE <<>>)
                /\ installed' = IF o.dir = <<>> THEN installed ELSE installed \ {o.dir}
    /\ UNCHANGED <<modeVars, logVars, jobVars>>
    /\ UNCHANGED <<osEOL, xml, roundTrip, nugetConfigFile, bonsaiConfigFile, call,
                   args, original>>

\* One turn of the loop.  A turn that found an entry removes the directory
\* of its package or warns that there is none (lines 392-397), before it
\* replaces the entry; the turn that got past replaceChild tells the prefix
\* of its cleanup (line 406).
injectPackages_inject ==
    /\ pc = "injectPackages"
    /\ \E o \in {InjectPackage(dom, loc, args[loc.i])} :
           /\ Continue(o, IF loc.i = Len(args) THEN "writePackages" ELSE "injectPackages")
           /\ fsLog' = fsLog
                 \o (IF o.dir = <<>> THEN <<>>
                     ELSE IF o.dir \in installed THEN <<Event("rmSync", o.dir)>>
                     ELSE <<Event("warning", o.dir)>>)
                 \o (IF o.error = "none" /\ o.path # <<>>
                     THEN <<Event("debug", o.path)>> ELSE <<>>)
           /\ installed' = IF o.dir = <<>> THEN installed ELSE installed \ {o.dir}
    /\ UNCHANGED <<modeVars, logVars, jobVars>>
    /\ UNCHANGED <<osEOL, xml, roundTrip, nugetConfigFile, bonsaiConfigFile, call,
                   args, original>>

\* Lines 454-456: every package is in; serialize and write.
injectPackages_write ==
    /\ pc = "writePackages"
    /\ bonsaiConfigFile' = xmlToString(dom)
    /\ fsLog' = Append(fsLog, Event("writeFileSync", BonsaiConfigPath))
    /\ pc' = "done"
    /\ UNCHANGED <<modeVars, logVars, jobVars>>
    /\ UNCHANGED <<osEOL, xml, roundTrip, nugetConfigFile, call, args, dom, loc,
                   error, installed, original>>

----------------------------------------------------------------------------
(* The specification: one call of addPackageSources on a NuGet.config, or *)
(* one call of injectPackages on a Bonsai.config.                          *)

\* The file the call at hand does not touch.
DefaultNuGetConfig == DocumentText("configuration", <<>>, <<>>, PlainFormat)
DefaultBonsaiConfig == DocumentText("PackageConfiguration", <<>>, <<>>, PlainFormat)

\* The directories of the packages Foo 1.0 and Bar 1.0.
PackageDirectories ==
    {<<"Packages", PathSep, "Foo", ".", "1.0">>,
     <<"Packages", PathSep, "Bar", ".", "1.0">>}

\* The children of the first of these containers.
ContainerChildren(containers) ==
    IF containers = <<>> THEN <<>> ELSE containers[1].childNodes

Init ==
    /\ xml = <<>>
    /\ roundTrip = NotRun
    /\ \/ /\ osEOL = "\n"
          /\ nugetConfigFile \in NuGetConfigs
          /\ bonsaiConfigFile = DefaultBonsaiConfig
          /\ installed = PackageDirectories
       \/ /\ osEOL \in {"\n", "\r\n"}
          /\ nugetConfigFile = DefaultNuGetConfig
          /\ bonsaiConfigFile \in BonsaiConfigs
          /\ installed \in {{}, PackageDirectories}
    /\ call = "none"
    /\ pc = "idle"
    /\ args = <<>>
    /\ dom = NoDoc
    /\ loc = NoLocals
    /\ error = "none"
    /\ fsLog = <<>>
    /\ original =
          [nuget |-> nugetConfigFile,
           bonsai |-> bonsaiConfigFile,
           installed |-> installed,
           sources |-> ContainerChildren(packageSourcesSelector(parseXml(nugetConfigFile))),
           packages |->
               ContainerChildren(bonsaiConfigPackagesSelector(parseXml(bonsaiConfigFile)))]
    /\ NoLog
    /\ NoJob

Next ==
    \/ \E sources \in SourceLists : addPackageSources(sources)
    \/ addPackageSources_add
    \/ addPackageSources_remove
    \/ addPackageSources_write
    \/ \E nugetPackages \in PackageLists : injectPackages(nugetPackages)
    \/ injectPackages_inject
    \/ injectPackages_write

Spec == Init /\ [][Next]_vars

----------------------------------------------------------------------------
(* What the claims speak of *)

\* The writes of the running call, in order.
Writes == SelectSeq(fsLog, LAMBDA e : e.op = "writeFileSync")

FilesAsAtStart ==
    /\ nugetConfigFile = original.nuget
    /\ bonsaiConfigFile = original.bonsai

\* addPackageSources found its container and its insertion point.
Merging == call = "addPackageSources" /\ loc # NoLocals

\* injectPackages found its container.
Upserting == call = "injectPackages" /\ loc # NoLocals

\* The <packageSources> elements of NuGet.config when the call started, and
\* the children of the first of them.
OriginalContainers == packageSourcesSelector(parseXml(original.nuget))
OriginalSources == original.sources

\* The children of the container in the tree the call works on.  (The
\* formulas below bind such values with \A x \in {e}, which evaluates e once.)
CurrentSources == ChildrenOf(dom, loc.packageSourcesNode)

\* Position of the last clear marker among these children, 0 without one.
ClearIndex(c) ==
    LET ks == {k \in 1..Len(c) :
                  c[k].nodeType = ELEMENT_NODE /\ Lower(c[k].nodeName) = "clear"}
    IN  IF ks = {} THEN 0 ELSE CHOOSE k \in ks : \A j \in ks : j <= k

\* The node was made by the call, not read from the file.
IsNew(n) == n.id > Len(original.nuget)

IsAddEntry(n) == n.nodeType = ELEMENT_NODE /\ n.nodeName = "add"

\* The child is an add entry for this source.
IsEntryOf(n, source) ==
    /\ IsAddEntry(n)
    /\ n.attrs = <<Attr("key", source.name), Attr("value", source.url)>>

\* The batch names a source twice.
RepeatsName(sources) ==
    \E i, j \in 1..Len(sources) : i < j /\ sources[i].name = sources[j].name

\* An entry an input source of this call collides with, and whether the
\* source may replace it.
CollidesWith(n, allowUpdate) ==
    /\ IsAddEntry(n)
    /\ \E j \in 1..Len(args) :
           /\ args[j].name = AttrValueIn(n.attrs, "key")
           /\ args[j].allowUpdate = allowUpdate

\* An element the walk cannot read as an entry.
Unreadable(n) ==
    /\ n.nodeType = ELEMENT_NODE
    /\ n.nodeName # "add" \/ AttrValueIn(n.attrs, "key") = <<>>

\* <!-- <add key=".." value=".." /> -->: the comment that disables entry n.
IsDisabled(m, n) ==
    /\ m.nodeType = COMMENT_NODE
    /\ m.data = <<SP, EmptyTag("add", n.attrs, 1), SP>>

----------------------------------------------------------------------------
(* C1 *)

\* C1: a call of addPackageSources or injectPackages that has not succeeded
\* leaves both files as they were and has written nothing; a call writes
\* its file once, as its last step, after every source or package of the
\* batch went into the tree without an error, and what it writes is that tree.
WriteOnlyOnSuccess ==
    /\ pc # "done" => FilesAsAtStart /\ Writes = <<>>
    /\ pc = "done" =>
          /\ error = "none"
          /\ Len(Writes) = 1
          /\ fsLog[Len(fsLog)].op = "writeFileSync"
          /\ loc.i = Len(args) + 1
          /\ call = "addPackageSources" =>
                /\ loc.node = Null
                /\ fsLog[Len(fsLog)].path = NuGetConfigPath
                /\ nugetConfigFile = xmlToString(dom)
                /\ bonsaiConfigFile = original.bonsai
          /\ call = "injectPackages" =>
                /\ fsLog[Len(fsLog)].path = BonsaiConfigPath
                /\ bonsaiConfigFile = xmlToString(dom)
                /\ nugetConfigFile = original.nuget

\* A call that failed with UpdateNotAllowed after it had put the new
\* entries into the tree.
FailedAfterMutation ==
    /\ Merging
    /\ pc = "failed"
    /\ error = "UpdateNotAllowed"
    /\ Len(CurrentSources) > Len(OriginalSources)

----------------------------------------------------------------------------
(* C2 *)

\* The text is written the way xmlToString writes: one space before every
\* "/>" of a tag, no <a></a> pair, one kind of line ending, and at most one
\* line ending after the root element.
Unmarked(t) == IF t # <<>> /\ t[1].t = "bom" THEN Tail(t) ELSE t
AfterRoot(t) ==
    LET x == Unmarked(t)
        k == IF x[1].t = "open" THEN CloseOf(x, 2, 0) ELSE 1
    IN  SubSeq(x, k + 1, Len(x))
WrittenForm(t) ==
    /\ \A k \in 1..Len(t) : t[k].t = "empty" => t[k].sp = 1
    /\ \A k \in 1..(Len(t) - 1) : ~(t[k].t = "open" /\ t[k + 1].t = "close")
    /\ \/ \A k \in 1..Len(t) : t[k].t = "lf" => (k > 1 /\ t[k - 1].t = "cr")
       \/ \A k \in 1..Len(t) : t[k].t # "cr"
    /\ AfterRoot(t) \in {<<>>, <<LF>>, <<CR, LF>>}

\* C2: xmlToString(parseXml(t)) is t, with or without a byte-order mark,
\* with LF or CRLF line endings, with or without a final line ending.  It is
\* stated for the texts in written form, where a difference cannot be one of
\* the serializer's notation for tags and line endings.
RoundTripIsExact ==
    (roundTrip # NotRun /\ WrittenForm(xml)) => roundTrip = xml

----------------------------------------------------------------------------
(* C3 *)

\* The indentation addPackageSources samples: the first text child of a
\* <packageSources>, or a line break and four spaces.
SampledIndentation ==
    LET texts == packageSourcesIndentSelector(parseXml(original.nuget))
    IN  IF texts # <<>> THEN texts[1].data ELSE <<LF, SP4>>

\* C3: after a successful addPackageSources(s1..sn) the container holds,
\* right after the last clear marker, n pairs of a new text node with the
\* sampled indentation and the new entry of s1, .., sn in this order; no two
\* children are the same node; the children that followed the marker come
\* after the pairs in their old order, each as it was or as a comment.
MergeInsertsInOrder ==
    (call = "addPackageSources" /\ pc = "done") =>
        \A c0 \in {OriginalSources}, c \in {CurrentSources} :
        \A k \in {ClearIndex(c0)}, n \in {Len(args)} :
            /\ Len(c) = Len(c0) + 2 * n
            /\ \A j \in 1..n :
                  /\ c[k + 2 * j - 1].nodeType = TEXT_NODE
                  /\ c[k + 2 * j - 1].data = SampledIndentation
                  /\ IsNew(c[k + 2 * j - 1])
                  /\ IsEntryOf(c[k + 2 * j], args[j])
                  /\ IsNew(c[k + 2 * j])
            /\ \A i, j \in 1..Len(c) : i # j => c[i].id # c[j].id
            /\ \A m \in (k + 1)..Len(c0) :
                  \/ c[m + 2 * n] = c0[m]
                  \/ IsAddEntry(c0[m]) /\ IsDisabled(c[m + 2 * n], c0[m])
            /\ nugetConfigFile = xmlToString(dom)

\* Two sources went in after a clear marker that older children follow.
MergedTwoAfterClear ==
    /\ call = "addPackageSources"
    /\ pc = "done"
    /\ Len(args) = 2
    /\ ClearIndex(OriginalSources) \in 1..(Len(OriginalSources) - 1)

----------------------------------------------------------------------------
(* C4 *)

\* The insertion point the claim gives for these children: the child after
\* the last clear marker, the first child without a marker, Null for the end.
InsertionPointOf(c) ==
    IF ClearIndex(c) < Len(c) THEN c[ClearIndex(c) + 1].id ELSE Null

\* C4: whenever addPackageSources is given sources and the file has a
\* <packageSources>, the call goes on with the insertion point after the
\* container's last clear marker (the first child without one, the end for
\* no child), and the marker stays before every entry the call inserts.
InsertionPointAfterLastClear ==
    (call = "addPackageSources" /\ args # <<>> /\ OriginalContainers # <<>>) =>
        /\ error # "AssertionError"
        /\ loc # NoLocals
        /\ loc.insertionPoint = InsertionPointOf(OriginalSources)
        /\ \A m \in 1..Len(CurrentSources) :
               IsNew(CurrentSources[m]) => m > ClearIndex(CurrentSources)

----------------------------------------------------------------------------
(* C5 *)

\* Position of the first child after the last clear marker that has the
\* name of an input source with allowUpdate false; 0 if there is none.
FirstRefused(c) ==
    LET ms == {m \in (ClearIndex(c) + 1)..Len(c) : CollidesWith(c[m], FALSE)}
    IN  IF ms = {} THEN 0 ELSE CHOOSE m \in ms : \A j \in ms : m <= j

\* The call is over, and an entry at or after the insertion point had the
\* name of an input source that may not replace it.
EndedWithRefusedCollision ==
    /\ call = "addPackageSources"
    /\ pc \in {"done", "failed"}
    /\ FirstRefused(OriginalSources) # 0

\* C5 as claimed: such a call, once it has its insertion point, fails with
\* UpdateNotAllowed (here for a batch of distinct names).
UpdateRefused ==
    (EndedWithRefusedCollision /\ Merging /\ ~RepeatsName(args)) =>
        pc = "failed" /\ error = "UpdateNotAllowed"

\* A clear marker only in a later <packageSources>: the assertions on the
\* insertion point fail (see C4).
ClearOnlyInLaterContainer ==
    /\ ClearIndex(OriginalSources) = 0
    /\ \E k \in 2..Len(OriginalContainers) :
           ClearIndex(OriginalContainers[k].childNodes) # 0

\* C5 as amended: such a call has failed and written nothing; the error is
\* UpdateNotAllowed unless an earlier check failed: the assertion on the
\* insertion point, DuplicateSourceName for a batch that repeats a name,
\* MalformedContainer for an unreadable element between the insertion
\* point and the first such entry.
UpdateRefusedUnlessEarlierError ==
    EndedWithRefusedCollision =>
        \A c0 \in {OriginalSources} : \A first \in {FirstRefused(c0)} :
            /\ pc = "failed"
            /\ FilesAsAtStart
            /\ Writes = <<>>
            /\ error =
                 IF ClearOnlyInLaterContainer THEN "AssertionError"
                 ELSE IF RepeatsName(args) THEN "DuplicateSourceName"
                 ELSE IF \E m \in (ClearIndex(c0) + 1)..(first - 1) : Unreadable(c0[m])
                      THEN "MalformedContainer"
                 ELSE "UpdateNotAllowed"

\* UpdateNotAllowed for an entry that is not the first of the walk, in a
\* batch with another source that has allowUpdate true.
RefusedLateInWalk ==
    /\ EndedWithRefusedCollision
    /\ error = "UpdateNotAllowed"
    /\ \E j \in 1..Len(args) : args[j].allowUpdate
    /\ \E m \in (ClearIndex(OriginalSources) + 1)..(FirstRefused(OriginalSources) - 1) :
           IsAddEntry(OriginalSources[m])

----------------------------------------------------------------------------
(* C6 *)

\* C6: at every point of addPackageSources each child the container had is
\* still at its place (moved on by the two nodes of every source inserted
\* before it): as the same node, or, for an entry after the insertion point
\* with the name of a source with allowUpdate true, as the comment that
\* holds " " + its serialized form + " ", with the new entry of that name
\* before it.  No child is deleted, and at the end every such entry is a
\* comment.
ReplacedEntryBecomesComment ==
    Merging =>
        \A c0 \in {OriginalSources}, c \in {CurrentSources} :
        \A k \in {ClearIndex(c0)}, n \in {Len(loc.newSources)} :
        LET at(m) == IF m <= k THEN m ELSE m + 2 * n
        IN  /\ Len(c) = Len(c0) + 2 * n
            /\ \A m \in 1..Len(c0) :
                  \/ c[at(m)] = c0[m]
                  \/ /\ m > k
                     /\ CollidesWith(c0[m], TRUE)
                     /\ IsDisabled(c[at(m)], c0[m])
                     /\ \E h \in 1..(at(m) - 1) :
                            /\ IsNew(c[h])
                            /\ IsAddEntry(c[h])
                            /\ AttrValueIn(c[h].attrs, "key")
                                   = AttrValueIn(c0[m].attrs, "key")
            /\ pc = "done" =>
                  \A m \in (k + 1)..Len(c0) :
                      CollidesWith(c0[m], TRUE) => c[at(m)].nodeType = COMMENT_NODE

\* A successful call that turned an entry into a comment.
DisabledAnEntry ==
    /\ Merging
    /\ pc = "done"
    /\ \E m \in 1..Len(OriginalSources) :
           /\ IsAddEntry(OriginalSources[m])
           /\ IsDisabled(CurrentSources[m + 2 * Len(args)], OriginalSources[m])

----------------------------------------------------------------------------
(* C7 *)

\* C7: a call of addPackageSources that found its container and was given
\* a batch that repeats a name ends with DuplicateSourceName, with the tree
\* as parseXml gave it (no node inserted, replaced or removed) and with
\* nothing written.
DuplicateBeforeTouching ==
    (Merging /\ pc \in {"done", "failed"} /\ RepeatsName(args)) =>
        /\ pc = "failed"
        /\ error = "DuplicateSourceName"
        /\ dom = parseXml(original.nuget)
        /\ FilesAsAtStart
        /\ Writes = <<>>

----------------------------------------------------------------------------
(* C8 *)

\* C8: at every point of addPackageSources the last clear marker and the
\* children before it are the nodes parseXml gave, in their order; an entry
\* among them with the name of an input source does not make the call fail:
\* UpdateNotAllowed is thrown only for an entry after the marker.  The file
\* a successful call writes has them again, in kind, name and attributes,
\* and the text nodes with their text.
ClearedEntriesUntouched ==
    Merging =>
        \A c0 \in {OriginalSources}, c \in {CurrentSources} :
        \A k \in {ClearIndex(c0)} :
            /\ SubSeq(c, 1, k) = SubSeq(c0, 1, k)
            /\ error = "UpdateNotAllowed" => FirstRefused(c0) # 0
            /\ pc = "done" =>
                  \A w \in {packageSourcesSelector(parseXml(nugetConfigFile))[1].childNodes} :
                      \A m \in 1..k :
                          /\ w[m].nodeType = c0[m].nodeType
                          /\ w[m].nodeName = c0[m].nodeName
                          /\ w[m].attrs = c0[m].attrs
                          /\ c0[m].nodeType # COMMENT_NODE => w[m].data = c0[m].data

\* A successful call although an entry before the clear marker has the
\* name of an input source with allowUpdate false.
CollisionBeforeClear ==
    /\ Merging
    /\ pc = "done"
    /\ \E m \in 1..(ClearIndex(OriginalSources) - 1) :
           CollidesWith(OriginalSources[m], FALSE)

----------------------------------------------------------------------------
(* C9 and C10 *)

OriginalPackages == original.packages

CurrentPackages == ChildrenOf(dom, loc.packagesNode)

IsPackageEntry(n) == n.nodeType = ELEMENT_NODE /\ n.nodeName = "Package"

PackageEntries(c) == SelectSeq(c, IsPackageEntry)

\* Positions of the entries of c with this id.
EntriesWithId(c, id) ==
    {p \in 1..Len(c) : IsPackageEntry(c[p]) /\ AttrValueIn(c[p].attrs, "id") = id}

\* c1 is c0 with the first entry for this package replaced by its entry.
ReplacedInPlace(c0, c1, nugetPackage) ==
    LET ps == EntriesWithId(c0, nugetPackage.id)
        p == CHOOSE q \in ps : \A r \in ps : q <= r
    IN  /\ Len(c1) = Len(c0)
        /\ \A q \in 1..Len(c0) : q # p => c1[q] = c0[q]
        /\ IsPackageEntry(c1[p])
        /\ c1[p].attrs = <<Attr("id", nugetPackage.id),
                           Attr("version", nugetPackage.version)>>
        /\ Len(PackageEntries(c1)) = Len(PackageEntries(c0))
        /\ EntriesWithId(c1, nugetPackage.id) = ps

\* C9: the turn of injectPackages for a package whose id is the id of an
\* entry of the container succeeds and changes the container's children in
\* one place only: the first entry with that id is now an entry with the
\* package's id and version; the length, the other children (entries and
\* indentation alike) and the number of entries with that id are the same.
ReplacesAtSamePosition ==
    [][(pc = "injectPackages" /\ EntriesWithId(CurrentPackages, args[loc.i].id) # {})
          => /\ error' = "none"
             /\ ReplacedInPlace(CurrentPackages, ChildrenOf(dom', loc.packagesNode),
                                args[loc.i])]_vars

\* A successful call replaced Foo 1.0, an entry between two other children,
\* by Foo 2.0.
ReplacedFoo ==
    /\ Upserting
    /\ pc = "done"
    /\ args = <<LocalNuGetPackage("Foo", "2.0")>>
    /\ Len(OriginalPackages) = 3
    /\ EntriesWithId(OriginalPackages, Str("Foo")) = {2}
    /\ AttrValueIn(CurrentPackages[2].attrs, "version") = Str("2.0")

\* C10: after a successful injectPackages of one package whose id is, but
\* for the case of its letters, the id of an entry of the file's one
\* <Packages>, the container has as many entries and children as before.
MatchesIdWhateverTheCase ==
    (/\ Upserting
     /\ pc = "done"
     /\ Len(args) = 1
     /\ Len(bonsaiConfigPackagesSelector(parseXml(original.bonsai))) = 1
     /\ \E p \in 1..Len(OriginalPackages) :
            /\ IsPackageEntry(OriginalPackages[p])
            /\ ToUpperCase(AttrValueIn(OriginalPackages[p].attrs, "id"))
                   = ToUpperCase(args[1].id))
    => /\ Len(PackageEntries(CurrentPackages)) = Len(PackageEntries(OriginalPackages))
       /\ Len(CurrentPackages) = Len(OriginalPackages)

----------------------------------------------------------------------------
(* C11, C12 and C13 *)

Range(f) == {f[k] : k \in DOMAIN f}

\* The records of the three sections the cleanup works on.
AssemblyLocations(doc) ==
    ChildElements(doc, "packageconfiguration", "assemblylocations", "assemblylocation")
LibraryFolders(doc) ==
    ChildElements(doc, "packageconfiguration", "libraryfolders", "libraryfolder")
AssemblyReferences(doc) ==
    ChildElements(doc, "packageconfiguration", "assemblyreferences", "assemblyreference")

\* The attribute of the record with every backslash as a forward slash.
Normalized(e, attribute) == ForwardSlashes(AttrValueIn(e.node.attrs, attribute))

\* The record lies below the path p.
LocatedBelow(e, p) == StartsWith(Normalized(e, "location"), p)
FolderBelow(e, p) == StartsWith(Normalized(e, "path"), p)

\* The entry the turn at hand replaces: the first one of the container with
\* the id of the package.
ReplacedEntry ==
    LET c == CurrentPackages
        ps == EntriesWithId(c, args[loc.i].id)
    IN  c[CHOOSE q \in ps : \A r \in ps : q <= r]

\* Packages/I.V/ for the id I and the version V of this entry.
FragmentOf(entry) ==
    <<"Packages", "/">> \o AttrValueIn(entry.attrs, "id") \o <<".">>
        \o AttrValueIn(entry.attrs, "version") \o <<"/">>

\* The turn at hand replaces an entry of the container.
Replacing ==
    /\ pc = "injectPackages"
    /\ EntriesWithId(CurrentPackages, args[loc.i].id) # {}

\* C11: when a turn of injectPackages has replaced an entry whose directory
\* is P = Packages/I.V/, the tree has no <AssemblyLocation> whose location
\* (backslashes read as slashes) starts with P, no <LibraryFolder> whose path
\* starts with P, and no <AssemblyReference> with the assemblyName of an
\* <AssemblyLocation> the turn removed.
CascadeRemovesRecords ==
    [][Replacing =>
          \A p \in {FragmentOf(ReplacedEntry)} :
              /\ \A e \in Range(AssemblyLocations(dom')) : ~LocatedBelow(e, p)
              /\ \A e \in Range(LibraryFolders(dom')) : ~FolderBelow(e, p)
              /\ \A e \in Range(AssemblyLocations(dom)) :
                    (LocatedBelow(e, p) /\ AttrValueIn(e.node.attrs, "assemblyName") # <<>>)
                    => \A r \in Range(AssemblyReferences(dom')) :
                           AttrValueIn(r.node.attrs, "assemblyName")
                               # AttrValueIn(e.node.attrs, "assemblyName")]_vars

\* A call replaced Foo 1.0 and wrote a file without the two locations, the
\* folder and the two references of Foo, which the file had before.
CascadeRemovedFoo ==
    /\ Upserting
    /\ pc = "done"
    /\ args = <<LocalNuGetPackage("Foo", "2.0")>>
    /\ EntriesWithId(OriginalPackages, Str("Foo")) # {}
    /\ \A d0 \in {parseXml(original.bonsai)}, d1 \in {parseXml(bonsaiConfigFile)} :
           \A p \in {<<"Packages", "/", "Foo", ".", "1.0", "/">>} :
           /\ Cardinality({e \in Range(AssemblyLocations(d0)) : LocatedBelow(e, p)}) = 2
           /\ Cardinality({e \in Range(LibraryFolders(d0)) : FolderBelow(e, p)}) = 1
           /\ Len(AssemblyReferences(d0)) = Len(AssemblyReferences(d1)) + 2
           /\ \A e \in Range(AssemblyLocations(d1)) : ~LocatedBelow(e, p)
           /\ \A e \in Range(LibraryFolders(d1)) : ~FolderBelow(e, p)

\* The assemblyNames of the locations of doc below p.
NamesBelow(doc, p) ==
    {AttrValueIn(e.node.attrs, "assemblyName") :
        e \in {x \in Range(AssemblyLocations(doc)) : LocatedBelow(x, p)}} \ {<<>>}

\* C12: a turn of injectPackages that replaces an entry with the directory
\* P = Packages/I.V/ leaves every other record as it was and where it was
\* among the records: the locations and folders that are not below P (those
\* of a directory whose name only begins with I.V among them), the
\* references whose assemblyName is not that of a location below P, and the
\* other entries of the container.
CascadeLeavesOthers ==
    [][Replacing =>
          \A p \in {FragmentOf(ReplacedEntry)}, c0 \in {CurrentPackages},
             c1 \in {ChildrenOf(dom', loc.packagesNode)} :
              /\ AssemblyLocations(dom')
                     = SelectSeq(AssemblyLocations(dom), LAMBDA e : ~LocatedBelow(e, p))
              /\ LibraryFolders(dom')
                     = SelectSeq(LibraryFolders(dom), LAMBDA e : ~FolderBelow(e, p))
              /\ AssemblyReferences(dom')
                     = SelectSeq(AssemblyReferences(dom),
                           LAMBDA r : AttrValueIn(r.node.attrs, "assemblyName")
                                          \notin NamesBelow(dom, p))
              /\ Len(c1) = Len(c0)
              /\ \A q \in 1..Len(c0) : c0[q] # ReplacedEntry => c1[q] = c0[q]]_vars

\* A call replaced Foo 1.0 and wrote a file that still has the location,
\* the reference and the folder of the package in Packages/Foo.1.0.1, and
\* those of Bar 1.0.
KeptPatchRecords ==
    /\ Upserting
    /\ pc = "done"
    /\ args = <<LocalNuGetPackage("Foo", "2.0")>>
    /\ EntriesWithId(OriginalPackages, Str("Foo")) # {}
    /\ \A d1 \in {parseXml(bonsaiConfigFile)} :
           /\ \E e \in Range(AssemblyLocations(d1)) :
                  LocatedBelow(e, <<"Packages", "/", "Foo", ".", "1.0", ".1", "/">>)
           /\ \E e \in Range(LibraryFolders(d1)) :
                  FolderBelow(e, <<"Packages", "/", "Foo", ".", "1.0", ".1", "/">>)
           /\ \E e \in Range(AssemblyLocations(d1)) :
                  LocatedBelow(e, <<"Packages", "/", "Bar", ".", "1.0", "/">>)
           /\ {AttrValueIn(r.node.attrs, "assemblyName") :
                  r \in Range(AssemblyReferences(d1))} = {Str("Baz"), Str("Bar")}

\* The events the turn at hand adds to the log.
EventsOfTurn == SubSeq(fsLog', Len(fsLog) + 1, Len(fsLog'))

\* I.V for the id I and the version V of this entry.
IdDotVersion(entry) ==
    AttrValueIn(entry.attrs, "id") \o <<".">> \o AttrValueIn(entry.attrs, "version")

\* C13 as claimed: the turn that replaces an entry with id I and version V
\* asks for the removal of I.V/ and cleans up below I.V/.
FragmentIsIdDotVersion ==
    [][Replacing =>
          \A p \in {IdDotVersion(ReplacedEntry) \o <<"/">>} :
              /\ Len(EventsOfTurn) = 2
              /\ EventsOfTurn[1].op \in {"rmSync", "warning"}
              /\ EventsOfTurn[1].path = p
              /\ EventsOfTurn[2] = Event("debug", p)]_vars

\* The platform separates the parts of a path with a backslash.
Windows == osEOL = "\r\n"

\* C13 as amended: the turn looks on disk for the directory Packages/I.V of
\* the entry it replaces (with the platform's separator, no final slash) and
\* cleans up below Packages/I.V/, which has forward slashes on every
\* platform; I and V are those of the entry, not of the package that comes in.
FragmentIsPackagesIdDotVersion ==
    [][Replacing =>
          \A iv \in {IdDotVersion(ReplacedEntry)} :
              /\ Len(EventsOfTurn) = 2
              /\ EventsOfTurn[1].op \in {"rmSync", "warning"}
              /\ EventsOfTurn[1].path
                     = <<"Packages", IF Windows THEN "\\" ELSE "/">> \o iv
              /\ EventsOfTurn[2] = Event("debug", <<"Packages", "/">> \o iv \o <<"/">>)]_vars

\* On Windows a call removed Packages\Foo.1.0 for Foo 2.0 and cleaned up
\* below Packages/Foo.1.0/.
CleanedBelowForwardSlashes ==
    /\ Upserting
    /\ Windows
    /\ args # <<>>
    /\ args[1] = LocalNuGetPackage("Foo", "2.0")
    /\ Len(fsLog) >= 4
    /\ fsLog[3] = Event("rmSync", <<"Packages", "\\", "Foo", ".", "1.0">>)
    /\ fsLog[4] = Event("debug", <<"Packages", "/", "Foo", ".", "1.0", "/">>)

----------------------------------------------------------------------------
(* C14 *)

\* The indentation injectPackages samples: the first text child of a
\* <Packages>, or a line break and four spaces.
SampledPackagesIndentation ==
    LET texts == bonsaiConfigPackagesIndentSelector(parseXml(original.bonsai))
    IN  IF texts # <<>> THEN texts[1].data ELSE <<LF, SP4>>

\* The turn at hand is for a package whose id no entry of the file has.
Inserting ==
    /\ pc = "injectPackages"
    /\ \A cs \in {bonsaiConfigPackagesSelector(dom)} :
           \A k \in 1..Len(cs) : EntriesWithId(cs[k].childNodes, args[loc.i].id) = {}

\* Where such a turn puts its two nodes among the children c: before the
\* final child if that is a text node, else after the last one.
InsertAt(c) ==
    IF c # <<>> /\ c[Len(c)].nodeType = TEXT_NODE THEN Len(c) ELSE Len(c) + 1

IsIndentation(n) ==
    /\ n.nodeType = TEXT_NODE
    /\ n.data = SampledPackagesIndentation
    /\ n.id > Len(original.bonsai)

IsInjected(n, nugetPackage) ==
    /\ IsPackageEntry(n)
    /\ n.attrs = <<Attr("id", nugetPackage.id), Attr("version", nugetPackage.version)>>
    /\ n.id > Len(original.bonsai)

\* C14: the turn of injectPackages for a package whose id no entry has
\* succeeds and puts a new text node with the sampled indentation and, after
\* it, the new entry into the container: before the container's final child
\* if that is a text node, else at the end, and so after the entries of the
\* earlier turns.  The other children keep their order, no directory is
\* looked for or removed, and no record of the other sections is removed.
InsertsBeforeFinalText ==
    [][Inserting =>
          \A c0 \in {CurrentPackages}, c1 \in {ChildrenOf(dom', loc.packagesNode)} :
          \A k \in {InsertAt(c0)} :
              /\ error' = "none"
              /\ Len(c1) = Len(c0) + 2
              /\ SubSeq(c1, 1, k - 1) = SubSeq(c0, 1, k - 1)
              /\ IsIndentation(c1[k])
              /\ IsInjected(c1[k + 1], args[loc.i])
              /\ SubSeq(c1, k + 2, Len(c1)) = SubSeq(c0, k, Len(c0))
              /\ fsLog' = fsLog
              /\ installed' = installed
              /\ AssemblyLocations(dom') = AssemblyLocations(dom)
              /\ LibraryFolders(dom') = LibraryFolders(dom)
              /\ AssemblyReferences(dom') = AssemblyReferences(dom)]_vars

\* A call put Foo 2.0 and New 1.0, two packages the file had no entry
\* for, in this order before the final text node of a container with Bar,
\* and touched neither a directory nor a record.
InsertedTwoInOrder ==
    /\ Upserting
    /\ pc = "done"
    /\ args = <<LocalNuGetPackage("Foo", "2.0"), LocalNuGetPackage("New", "1.0")>>
    /\ installed = PackageDirectories
    /\ \A c0 \in {OriginalPackages}, c \in {CurrentPackages} :
           /\ Len(c0) = 3
           /\ IsPackageEntry(c0[2])
           /\ c0[3].nodeType = TEXT_NODE
           /\ Len(c) = 7
           /\ SubSeq(c, 1, 2) = SubSeq(c0, 1, 2)
           /\ IsIndentation(c[3]) /\ IsInjected(c[4], args[1])
           /\ IsIndentation(c[5]) /\ IsInjected(c[6], args[2])
           /\ c[7] = c0[3]
    /\ Len(AssemblyLocations(dom)) = 4

----------------------------------------------------------------------------
(* C15 *)

\* The directory of the entry the turn at hand replaces, as the platform
\* writes it.
DirectoryOf(entry) ==
    <<"Packages", IF Windows THEN "\\" ELSE "/">> \o IdDotVersion(entry)

\* C15: a turn of injectPackages that replaces an entry whose directory is
\* not on disk warns and goes on like any other: no error, nothing removed
\* on disk, the entry replaced in place, no location or folder below its
\* directory left in the tree, and the call at its next package or, after
\* the last one, at the write.
MissingDirectoryOnlyWarns ==
    [][(Replacing /\ DirectoryOf(ReplacedEntry) \notin installed) =>
          \A p \in {FragmentOf(ReplacedEntry)} :
              /\ error' = "none"
              /\ EventsOfTurn[1] = Event("warning", DirectoryOf(ReplacedEntry))
              /\ \A k \in 1..Len(EventsOfTurn) : EventsOfTurn[k].op # "rmSync"
              /\ installed' = installed
              /\ ReplacedInPlace(CurrentPackages, ChildrenOf(dom', loc.packagesNode),
                                 args[loc.i])
              /\ \A e \in Range(AssemblyLocations(dom')) : ~LocatedBelow(e, p)
              /\ \A e \in Range(LibraryFolders(dom')) : ~FolderBelow(e, p)
              /\ loc'.i = loc.i + 1
              /\ pc' = IF loc.i < Len(args) THEN "injectPackages" ELSE "writePackages"]_vars

\* A call warned about the missing directory of Foo 1.0, went on to insert
\* New 1.0 and wrote the file, without the location of Foo.
WroteAfterWarning ==
    /\ Upserting
    /\ pc = "done"
    /\ args = <<LocalNuGetPackage("Foo", "2.0"), LocalNuGetPackage("New", "1.0")>>
    /\ fsLog[3].op = "warning"
    /\ fsLog[Len(fsLog)] = Event("writeFileSync", BonsaiConfigPath)
    /\ \A d0 \in {parseXml(original.bonsai)}, d1 \in {parseXml(bonsaiConfigFile)} :
           Len(AssemblyLocations(d0)) = Len(AssemblyLocations(d1)) + 2
    /\ \E e \in Range(CurrentPackages) : IsInjected(e, args[2])

----------------------------------------------------------------------------
(* C16 *)

\* C16: all a call does to the file system is log its intent and read the
\* file at its start and write the file at its end: no directory is removed
\* in between, and a call that failed has left the directories on disk as
\* they were.
NoEffectBetweenReadAndWrite ==
    /\ \A k \in 1..Len(fsLog) :
           fsLog[k].op \in {"logFileModificationIntent", "readFileSync",
                            "writeFileSync", "warning", "debug"}
    /\ pc = "failed" => installed = original.installed

----------------------------------------------------------------------------
(* C17 *)

\* The <Packages> elements of Bonsai.config when the call started.
OriginalPackageContainers == bonsaiConfigPackagesSelector(parseXml(original.bonsai))

\* C17: a call of injectPackages on a file with more than one <Packages>
\* works on the first of them only: it does not fail, and every later
\* <Packages> stays as parseXml gave it.
OnlyFirstContainer ==
    (Upserting /\ Len(bonsaiConfigPackagesSelector(dom)) > 1) =>
        \A cs0 \in {OriginalPackageContainers}, cs \in {bonsaiConfigPackagesSelector(dom)} :
            /\ pc # "failed"
            /\ Len(cs) = Len(cs0)
            /\ \A k \in 2..Len(cs0) : cs[k] = cs0[k]

----------------------------------------------------------------------------
(* The modification log: the files the action is about to modify are      *)
(* copied into the folder modification-log of the temporary path, which   *)
(* all invocations of a job share.  The content of a file is a number: 0   *)
(* for what the user had, k for what the k-th call wrote.                  *)

MaxCalls == 3

\* The files of the environment, relative to the working directory.
Paths == {"NuGet.config", "Bonsai.config"}

\* f with the value v at p.
Put(f, p, v) == [q \in DOMAIN f \cup {p} |-> IF q = p THEN v ELSE f[q]]

\* Lines 15-17: nothing is logged outside debug and test mode.
LoggingActive == isDebug \/ actionIsUnderTest

logFileModificationIntent_overwriting(filePath) ==
    /\ intent = ""
    /\ calls < MaxCalls
    /\ calls' = calls + 1
    /\ intent' = filePath
    /\ IF ~LoggingActive THEN UNCHANGED <<modificationLog, logged>>
       ELSE /\ modificationLog' =
                  [modificationLog EXCEPT
                      !.exists = TRUE,
                      !.backups = Put(@, filePath, files[filePath]),
                      !.entries = Put(@, filePath,
                                      IF filePath \in DOMAIN @ THEN @[filePath] + 1 ELSE 1)]
            /\ logged' = Append(logged, [path |-> filePath, content |-> files[filePath]])
    /\ UNCHANGED <<callVars, modeVars, jobVars, files>>

\* logFileModificationIntent, the first statement of addPackageSources (for
\* NuGet.config) and of injectPackages (for Bonsai.config): the file is
\* copied to the folder unless its backup is there already, and an entry is
\* added to its #MODIFICATION.log.
logFileModificationIntent(filePath) ==
    /\ intent = ""
    /\ calls < MaxCalls
    /\ calls' = calls + 1
    /\ intent' = filePath
    /\ IF ~LoggingActive THEN UNCHANGED <<modificationLog, logged>>
       ELSE /\ modificationLog' =
                  [modificationLog EXCEPT
                      !.exists = TRUE,
                      !.backups = IF filePath \in DOMAIN @ THEN @
                                  ELSE Put(@, filePath, files[filePath]),
                      !.entries = Put(@, filePath,
                                      IF filePath \in DOMAIN @ THEN @[filePath] + 1 ELSE 1)]
            /\ logged' = Append(logged, [path |-> filePath, content |-> files[filePath]])
    /\ UNCHANGED <<callVars, modeVars, jobVars, files>>

\* The call writes the file it announced (bonsai.ts, lines 174 and 456).
writeFileSync(filePath) ==
    /\ intent = filePath
    /\ files' = [files EXCEPT ![filePath] = calls]
    /\ intent' = ""
    /\ UNCHANGED <<callVars, modeVars, jobVars, modificationLog, logged, calls>>

\* The call throws before it writes.
throwError ==
    /\ intent # ""
    /\ intent' = ""
    /\ UNCHANGED <<callVars, modeVars, jobVars, files, modificationLog, logged, calls>>

\* archiveModificationLog, which main runs at its end in debug mode: the
\* folder is made if it is missing, every backed-up file gets the current
\* content of the user's file next to it (name#MODIFIED.ext), and
\* run-info.json is written.
archiveModificationLog ==
    /\ intent = ""
    /\ isDebug
    /\ modificationLog' =
           [modificationLog EXCEPT
               !.exists = TRUE,
               !.modified = [p \in DOMAIN modificationLog.backups |-> files[p]],
               !.runInfo = TRUE]
    /\ UNCHANGED <<callVars, modeVars, jobVars, files, logged, intent, calls>>

\* restoreModifiedFiles, which main runs for --restore-modified in test
\* mode: every backup is copied over the user's file; the #MODIFIED copies,
\* the logs and run-info.json are skipped; then the folder is deleted, which
\* the function refuses to do for a folder without run-info.json.
restoreModifiedFiles ==
    /\ intent = ""
    /\ actionIsUnderTest
    /\ IF ~modificationLog.exists THEN UNCHANGED <<files, modificationLog, logged>>
       ELSE /\ files' = [p \in DOMAIN files |->
                            IF p \in DOMAIN modificationLog.backups
                            THEN modificationLog.backups[p] ELSE files[p]]
            /\ IF modificationLog.runInfo
               THEN modificationLog' = EmptyLog /\ logged' = <<>>
               ELSE UNCHANGED <<modificationLog, logged>>
    /\ UNCHANGED <<callVars, modeVars, jobVars, intent, calls>>

\* The variables of a single call, for the other specifications.
NoCall ==
    /\ osEOL = "\n"
    /\ xml = <<>>
    /\ roundTrip = NotRun
    /\ nugetConfigFile = <<>>
    /\ bonsaiConfigFile = <<>>
    /\ call = "none"
    /\ pc = "none"
    /\ args = <<>>
    /\ dom = NoDoc
    /\ loc = NoLocals
    /\ error = "none"
    /\ fsLog = <<>>
    /\ installed = {}
    /\ original = <<>>

InitLog ==
    /\ NoCall
    /\ isDebug \in BOOLEAN
    /\ actionIsUnderTest \in BOOLEAN
    /\ files = [p \in Paths |-> 0]
    /\ modificationLog = EmptyLog
    /\ logged = <<>>
    /\ intent = ""
    /\ calls = 0
    /\ inputs = [none |-> TRUE]
    /\ stage = "none"
    /\ events = <<>>
    /\ cache = [none |-> TRUE]
    /\ exitCode = 0
    /\ environments = <<>>
    /\ bootstraps = <<>>

NextLog ==
    \/ \E filePath \in Paths : logFileModificationIntent(filePath)
    \/ \E filePath \in Paths : writeFileSync(filePath)
    \/ throwError
    \/ archiveModificationLog
    \/ restoreModifiedFiles

\* The calls and invocations that share one temporary path.
SpecLog == InitLog /\ [][NextLog]_vars

----------------------------------------------------------------------------
(* An invocation of the action: main (main.ts), then post (post.ts).  The  *)
(* steps of main are the sections of its code; what a step does to the     *)
(* packages and to the cache is written to events.  The modification log   *)
(* is left to SpecLog.                                                      *)

\* What cache.restoreCache can come back with: nothing, a key that
\* begins like the primary key, the primary key.
CacheKeys == {"", "partial", "primary"}

\* Largest number of environments the glob of environment-paths finds.
MaxEnvironments == 2

\* Sequences over S without a repetition, of length at most n.
DistinctSeqsUpTo(S, n) ==
    {q \in SeqsUpTo(S, n) : \A j, k \in 1..Len(q) : j # k => q[j] # q[k]}

\* What the glob finds, in its order: paths, each the root of a valid
\* environment or not.  A relative path is written as its rank among the
\* strings.
EnvironmentLists ==
    {q \in SeqsUpTo([relativePath : 1..MaxEnvironments, valid : BOOLEAN],
                    MaxEnvironments) :
        \A j, k \in 1..Len(q) : j # k => q[j].relativePath # q[k].relativePath}

\* util.stringCompare as the order of a sort
stringCompare(a, b) == a < b

\* The package files the glob of inject-packages finds.
PackageFiles == {"Foo.1.0.nupkg", "Foo.2.0.nupkg", "corrupt.nupkg"}

PackageFileLists == DistinctSeqsUpTo(PackageFiles, MaxPackages)

\* new LocalNuGetPackage(packagePath).id; "" for a file the constructor
\* throws on.
PackageId(packagePath) ==
    CASE packagePath = "Foo.1.0.nupkg" -> "Foo"
      [] packagePath = "Foo.2.0.nupkg" -> "Foo"
      [] OTHER -> ""

\* main returns after core.setFailed, or throws.
Fail ==
    /\ exitCode' = 1
    /\ stage' = "finally"

\* Lines 18-43: in test mode with --restore-modified the files are
\* restored and main returns.
main ==
    /\ stage = "main"
    /\ IF actionIsUnderTest /\ inputs.restoreModified
       THEN /\ events' = Append(events, "restoreModifiedFiles")
            /\ stage' = "exited"
       ELSE /\ stage' = "enumerateEnvironments"
            /\ UNCHANGED events
    /\ UNCHANGED <<callVars, modeVars, logVars, inputs, cache, exitCode,
                   environments, bootstraps>>

\* the paths that cannot be loaded are left out
main_enumerateEnvironments_lenient ==
    /\ stage = "enumerateEnvironments"
    /\ LET found == SelectSeq(inputs.environmentPaths, LAMBDA e : e.valid)
           loaded == [k \in 1..Len(found) |-> found[k].relativePath]
       IN  /\ environments' = SortSeq(loaded, stringCompare)
           /\ IF Len(loaded) = 0 THEN Fail
              ELSE stage' = "enumeratePackages" /\ UNCHANGED exitCode
    /\ UNCHANGED <<callVars, modeVars, logVars, inputs, events, cache, bootstraps>>

\* Lines 45-81: every path of the glob is loaded; one that cannot be loaded
\* fails the action after the loop.  The loaded environments are sorted by
\* relative path, and no environment at all fails the action too.
main_enumerateEnvironments ==
    /\ stage = "enumerateEnvironments"
    /\ LET found == inputs.environmentPaths
           hadErrors == \E k \in 1..Len(found) : ~found[k].valid
           loaded == [k \in 1..Len(found) |-> found[k].relativePath]
       IN  IF hadErrors
           THEN /\ environments' = SelectSeq(loaded,
                                       LAMBDA r : \E k \in 1..Len(found) :
                                           found[k].relativePath = r /\ found[k].valid)
                /\ Fail
           ELSE /\ environments' = SortSeq(loaded, stringCompare)
                /\ IF Len(loaded) = 0 THEN Fail
                   ELSE stage' = "enumeratePackages" /\ UNCHANGED exitCode
    /\ UNCHANGED <<callVars, modeVars, logVars, inputs, events, cache, bootstraps>>

\* Lines 83-127: the packages to inject are loaded; one that cannot be
\* loaded, or an id that comes twice, fails the action after the loop.
main_enumeratePackages ==
    /\ stage = "enumeratePackages"
    /\ LET packagePaths == inputs.packagePaths
           haveErrors ==
               \/ \E k \in 1..Len(packagePaths) : PackageId(packagePaths[k]) = ""
               \/ \E j, k \in 1..Len(packagePaths) :
                      j < k /\ PackageId(packagePaths[j]) = PackageId(packagePaths[k])
       IN  IF inputs.injectPackages /\ haveErrors THEN Fail
           ELSE stage' = "restoreCache" /\ UNCHANGED exitCode
    /\ UNCHANGED <<callVars, modeVars, logVars, inputs, events, cache,
                   environments, bootstraps>>

\* Full for Partial whenever something was restored
state_anyKey(primaryKey, restoredFrom) ==
    IF restoredFrom # "" THEN "full" ELSE "none"

\* SetupBonsaiCache.state: the values of CacheState (none, partial, full).
state(primaryKey, restoredFrom) ==
    IF primaryKey = restoredFrom THEN "full"
    ELSE IF restoredFrom # "" THEN "partial"
    ELSE "none"

\* Lines 129-138 with createForRestore and restore of the cache: the primary
\* key is saved for post; with caching enabled (and, in test mode, a cache
\* service) the cache is restored, and a key whose tarball tar extracted is
\* saved as CacheRestoredFrom.  The state goes to the output cache-hit.
main_restoreCache ==
    /\ stage = "restoreCache"
    /\ IF ~inputs.enableCache \/ (actionIsUnderTest /\ ~cache.service)
       THEN /\ cache' = [cache EXCEPT !.primaryKey = "primary",
                                      !.cacheHit = state("primary", cache.restoredFrom)]
            /\ UNCHANGED events
       ELSE IF cache.hit = ""
       THEN /\ cache' = [cache EXCEPT !.primaryKey = "primary",
                                      !.cacheHit = state("primary", cache.restoredFrom)]
            /\ events' = Append(events, "restoreCache")
       ELSE \E errorCode \in {0, 1} :
                /\ cache' = [cache EXCEPT
                                !.primaryKey = "primary",
                                !.restoredFrom = IF errorCode = 0 THEN cache.hit ELSE @,
                                !.cacheHit =
                                    state("primary",
                                          IF errorCode = 0 THEN cache.hit
                                          ELSE cache.restoredFrom)]
                /\ events' = events \o <<"restoreCache",
                                         IF errorCode = 0 THEN "tar" ELSE "tarFailed">>
    /\ stage' = "installBonsai"
    /\ UNCHANGED <<callVars, modeVars, logVars, inputs, exitCode, environments, bootstraps>>

\* Lines 140-144: Bonsai is downloaded and unpacked into every environment.
main_installBonsai ==
    /\ stage = "installBonsai"
    /\ \/ Fail /\ UNCHANGED events
       \/ /\ events' = Append(events, "installBonsai")
          /\ stage' = "addPackageSources"
          /\ UNCHANGED exitCode
    /\ UNCHANGED <<callVars, modeVars, logVars, inputs, cache, environments, bootstraps>>

\* Lines 146-162: the source of the package cache and, with packages to
\* inject, the source of the injected packages before it go into the
\* NuGet.config of every environment.
main_addPackageSources ==
    /\ stage = "addPackageSources"
    /\ \/ Fail /\ UNCHANGED events
       \/ /\ events' = Append(events, "addPackageSources")
          /\ stage' = "bootstrap"
          /\ UNCHANGED exitCode
    /\ UNCHANGED <<callVars, modeVars, logVars, inputs, cache, environments, bootstraps>>

\* every environment is bootstrapped whatever the exit codes before it
main_bootstrap_afterFailure ==
    /\ stage = "bootstrap"
    /\ \E i \in {Len(bootstraps) + 1}, errorCode \in {0, 1} :
           /\ bootstraps' = Append(bootstraps, [relativePath |-> environments[i],
                                                errorCode |-> errorCode])
           /\ events' = events
                  \o (IF i = 1 /\ inputs.packagePaths # <<>>
                      THEN <<"copyInjectedPackages">> ELSE <<>>)
                  \o <<"bootstrap">>
           /\ stage' = IF i = Len(environments) THEN "finally" ELSE "bootstrap"
           /\ exitCode' = IF errorCode # 0 THEN 1 ELSE exitCode
    /\ UNCHANGED <<callVars, modeVars, logVars, inputs, cache, environments>>

\* Lines 184-222, one turn of the loop over the environments: with
\* packages to inject, they are copied into the folder the injected source
\* points to before the first turn.  The turn bootstraps the environment;
\* after an exit code other than 0 the other turns bootstrap nothing
\* (allSuccessful &&= ..) and the action fails.
main_bootstrap ==
    /\ stage = "bootstrap"
    /\ \E i \in {Len(bootstraps) + 1}, errorCode \in {0, 1} :
           /\ bootstraps' = Append(bootstraps, [relativePath |-> environments[i],
                                                errorCode |-> errorCode])
           /\ events' = events
                  \o (IF i = 1 /\ inputs.packagePaths # <<>>
                      THEN <<"copyInjectedPackages">> ELSE <<>>)
                  \o <<"bootstrap">>
           /\ IF errorCode # 0 THEN Fail
              ELSE /\ stage' = IF i = Len(environments) THEN "finally" ELSE "bootstrap"
                   /\ UNCHANGED exitCode
    /\ UNCHANGED <<callVars, modeVars, logVars, inputs, cache, environments>>

\* Lines 224-229: in debug mode the modification log is archived.
main_finally ==
    /\ stage = "finally"
    /\ events' = IF isDebug THEN Append(events, "archiveModificationLog") ELSE events
    /\ stage' = "exited"
    /\ UNCHANGED <<callVars, modeVars, logVars, inputs, cache, exitCode,
                   environments, bootstraps>>

\* What post does once it runs (post.ts, lines 5-24, with createForUpload
\* and uploadCache): nothing with caching disabled or after an exact hit;
\* else the staged tarball, which must be there like the primary key main
\* saved, is moved to where the cache service takes it from and, unless
\* this is a test without the service, saved under the primary key.
PostMain ==
    IF ~inputs.enableCache THEN UNCHANGED <<events, cache>>
    ELSE IF cache.primaryKey = ""
    THEN events' = Append(events, "Error") /\ UNCHANGED cache
    ELSE IF cache.restoredFrom = cache.primaryKey THEN UNCHANGED <<events, cache>>
    ELSE IF ~cache.staged
    THEN events' = Append(events, "Error") /\ UNCHANGED cache
    ELSE /\ cache' = [cache EXCEPT !.staged = FALSE, !.actual = TRUE]
         /\ events' = IF actionIsUnderTest /\ ~cache.service THEN events
                      ELSE Append(events, "saveCache")

post_unconditional ==
    /\ stage = "exited"
    /\ ~inputs.restoreModified
    /\ PostMain
    /\ stage' = "postExited"
    /\ UNCHANGED <<callVars, modeVars, logVars, inputs, exitCode, environments, bootstraps>>

\* post.js after main.js: test.cmd runs it if main.js exited with 0 (lines
\* 50-61); on a runner it is the job that decides, and the model lets post
\* run or not.
post ==
    /\ stage = "exited"
    /\ ~inputs.restoreModified
    /\ actionIsUnderTest => exitCode = 0
    /\ PostMain
    /\ stage' = "postExited"
    /\ UNCHANGED <<callVars, modeVars, logVars, inputs, exitCode, environments, bootstraps>>

\* An invocation in test mode can find the tarball an earlier invocation
\* staged, for test.cmd gives every invocation the same id and temporary
\* path; on a runner the id is new and so is the folder.
InitJob ==
    /\ NoCall
    /\ NoLog
    /\ isDebug \in BOOLEAN
    /\ actionIsUnderTest \in BOOLEAN
    /\ inputs \in [enableCache : BOOLEAN, injectPackages : BOOLEAN,
                   restoreModified : IF actionIsUnderTest THEN BOOLEAN ELSE {FALSE},
                   environmentPaths : {q \in EnvironmentLists : Len(q) <= 1},
                   packagePaths : {q \in PackageFileLists : Len(q) <= 1}]
    /\ ~inputs.injectPackages => inputs.packagePaths = <<>>
    /\ cache \in [service : IF actionIsUnderTest THEN BOOLEAN ELSE {TRUE},
                  hit : CacheKeys,
                  primaryKey : {""},
                  restoredFrom : {""},
                  cacheHit : {""},
                  staged : IF actionIsUnderTest THEN BOOLEAN ELSE {FALSE},
                  actual : {FALSE}]
    /\ stage = "main"
    /\ events = <<>>
    /\ exitCode = 0
    /\ environments = <<>>
    /\ bootstraps = <<>>

NextJob ==
    \/ main
    \/ main_enumerateEnvironments
    \/ main_enumeratePackages
    \/ main_restoreCache
    \/ main_installBonsai
    \/ main_addPackageSources
    \/ main_bootstrap
    \/ main_finally
    \/ post

SpecJob == InitJob /\ [][NextJob]_vars

\* One invocation on a runner, with everything the two globs can find.
InitMain ==
    /\ NoCall
    /\ NoLog
    /\ isDebug = FALSE
    /\ actionIsUnderTest = FALSE
    /\ inputs \in [enableCache : BOOLEAN, injectPackages : BOOLEAN,
                   restoreModified : {FALSE},
                   environmentPaths : EnvironmentLists,
                   packagePaths : PackageFileLists]
    /\ ~inputs.injectPackages => inputs.packagePaths = <<>>
    /\ cache \in [service : {TRUE}, hit : CacheKeys, primaryKey : {""},
                  restoredFrom : {""}, cacheHit : {""}, staged : {FALSE},
                  actual : {FALSE}]
    /\ stage = "main"
    /\ events = <<>>
    /\ exitCode = 0
    /\ environments = <<>>
    /\ bootstraps = <<>>

SpecMain == InitMain /\ [][NextJob]_vars

----------------------------------------------------------------------------
(* C18 and C19 *)

\* Position of the first event of this kind, 0 if there is none.
FirstEvent(op) ==
    LET ks == {k \in 1..Len(events) : events[k] = op}
    IN  IF ks = {} THEN 0 ELSE CHOOSE k \in ks : \A j \in ks : k <= j

\* C18: in an invocation with packages to inject, the cache is captured
\* before the packages are put where an environment finds them: before an
\* injectPackages and before the bootstrap that follows their copy into the
\* folder of the injected source.
CapturedBeforeInjection ==
    \A k \in 1..Len(events) :
        (\/ events[k] = "injectPackages"
         \/ events[k] = "bootstrap" /\ FirstEvent("copyInjectedPackages") \in 1..(k - 1))
        => FirstEvent("captureCache") \in 1..(k - 1)

----------------------------------------------------------------------------
(* C20 *)

\* The content the file had at the first logged intent to modify it.
FirstLogged(p) ==
    LET ks == {k \in 1..Len(logged) : logged[k].path = p}
    IN  logged[CHOOSE k \in ks : \A j \in ks : k <= j].content

\* C20: in debug or test mode the folder has a backup of exactly the files
\* an intent was logged for, and the backup of a file is the content the
\* file had at the first of these intents, whatever was logged, written,
\* archived or restored since; restoreModifiedFiles gives every backed-up
\* file that content again.
BackupIsFirstContent ==
    /\ [](/\ DOMAIN modificationLog.backups = {logged[k].path : k \in 1..Len(logged)}
          /\ \A p \in DOMAIN modificationLog.backups :
                 modificationLog.backups[p] = FirstLogged(p))
    /\ [][restoreModifiedFiles =>
             \A p \in DOMAIN modificationLog.backups : files'[p] = FirstLogged(p)]_vars

\* A file was written by a call, announced again by a later call, and is
\* back at the content of its backup, which is what the user had.
RestoredAfterTwoCalls ==
    \E p \in DOMAIN modificationLog.backups :
        /\ \E k \in 1..Len(logged) : logged[k].path = p /\ logged[k].content # 0
        /\ modificationLog.backups[p] = 0
        /\ files[p] = 0

----------------------------------------------------------------------------
(* xpath.smartRemove, called on the elements of one container, one call     *)
(* after the other; a caller may hold an element it removed before.         *)

\* Largest number of smartRemove calls in a row.
MaxRemovals == 2

\* The containers whose elements are removed: packages, indentation, and an
\* entry somebody disabled.
RemoveItems == {IndentText, PackageEntry("Foo"), PackageEntry("Bar"), DisabledEntry("A")}

RemoveTexts ==
    {DocumentText("PackageConfiguration", <<"Packages">>, <<items>>, PlainFormat) :
        items \in SeqsUpTo(RemoveItems, MaxChildren)}

\* node.parentNode for a node of a container: the container that has the
\* node among its children, Null for a node that is in no container.
parentNode(doc, id) ==
    LET top == doc.documentElement.childNodes
        ps == {k \in 1..Len(top) : IndexOf(top[k].childNodes, id) # 0}
    IN  IF ps = {} THEN Null ELSE top[CHOOSE k \in ps : TRUE].id

InitRemove ==
    /\ osEOL = "\n"
    /\ xml \in RemoveTexts
    /\ roundTrip = NotRun
    /\ nugetConfigFile = <<>>
    /\ bonsaiConfigFile = <<>>
    /\ call = "smartRemove"
    /\ pc = "smartRemove"
    /\ args = <<>>
    /\ dom = parseXml(xml)
    /\ loc = [packagesNode |-> bonsaiConfigPackagesSelector(dom)[1].id, i |-> 1]
    /\ error = "none"
    /\ fsLog = <<>>
    /\ installed = {}
    /\ original = [packages |-> bonsaiConfigPackagesSelector(dom)[1].childNodes]
    /\ NoLog
    /\ NoJob

\* smartRemove(node), lines 165-177: a node without a parent throws; else
\* the node is removed from its parent, with the text node before it.
xpath_smartRemove(node) ==
    /\ pc = "smartRemove"
    /\ loc.i <= MaxRemovals
    /\ args' = <<node>>
    /\ LET parent == parentNode(dom, node)
       IN  IF parent = Null
           THEN /\ error' = "OrphanedNode"
                /\ pc' = "failed"
                /\ UNCHANGED <<dom, loc>>
           ELSE /\ dom' = WithChildren(dom, parent, smartRemove(ChildrenOf(dom, parent), node))
                /\ loc' = [loc EXCEPT !.i = @ + 1]
                /\ UNCHANGED <<error, pc>>
    /\ UNCHANGED <<modeVars, logVars, jobVars>>
    /\ UNCHANGED <<osEOL, xml, roundTrip, nugetConfigFile, bonsaiConfigFile, call,
                   fsLog, installed, original>>

\* The elements the caller can hold: those of the container as it was parsed.
ElementIds(c) == {c[k].id : k \in {j \in 1..Len(c) : c[j].nodeType = ELEMENT_NODE}}

NextRemove == \E node \in ElementIds(original.packages) : xpath_smartRemove(node)

SpecRemove == InitRemove /\ [][NextRemove]_vars

----------------------------------------------------------------------------
(* C21 *)

\* The nodes a smartRemove of the child with this id takes out of c: the
\* child, and the text node right before it if there is one.
TakenOut(c, id) ==
    LET k == IndexOf(c, id)
    IN  {id} \cup (IF k > 1 /\ c[k - 1].nodeType = TEXT_NODE THEN {c[k - 1].id} ELSE {})

\* C21: smartRemove of a node that has a parent removes that node and, if
\* the sibling right before it is a text node, that text node; the other
\* children stay, in their order, and nothing is thrown.  smartRemove of a
\* node without a parent throws OrphanedNode and leaves the tree as it is.
RemovesNodeAndItsIndentation ==
    [][pc = "smartRemove" =>
          \A c0 \in {CurrentPackages}, id \in {args'[1]} :
              IF IndexOf(c0, id) # 0
              THEN /\ error' = "none"
                   /\ ChildrenOf(dom', loc.packagesNode) =
                          SelectSeq(c0, LAMBDA n : n.id \notin TakenOut(c0, id))
              ELSE /\ error' = "OrphanedNode"
                   /\ dom' = dom]_vars

\* An element went with the text before it, and the second removal of the
\* same element was refused.
RemovedTwiceRefused ==
    /\ call = "smartRemove"
    /\ pc = "failed"
    /\ error = "OrphanedNode"
    /\ Len(CurrentPackages) = Len(OriginalPackages) - 2
    /\ Len(CurrentPackages) > 0

----------------------------------------------------------------------------
(* The single-result accessors of xpath-extra.ts: select1Node,             *)
(* select1Element, select1Attribute (with the node it finds, not only its  *)
(* value) and select1Text, on a Bonsai.config.                             *)

ATTRIBUTE_NODE == 2

\* What expression.evaluate returns: a node set, its nodes in document
\* order, or a number, a string, a boolean.
XNodeSet(nodes) == [constructor |-> "XNodeSet", nodes |-> nodes]
XNumber == [constructor |-> "XNumber", nodes |-> <<>>]
XBoolean == [constructor |-> "XBoolean", nodes |-> <<>>]

\* The expressions the accessors are called with.
Expressions ==
    {"//PackageConfiguration/Packages/Package",
     "//PackageConfiguration/Packages/Package/@id",
     "//PackageConfiguration/Packages/text()",
     "//PackageConfiguration/Packages/node()",
     "count(//PackageConfiguration/Packages/Package)",
     "boolean(//PackageConfiguration/Packages/Package)"}

\* The attributes called name of these elements, as nodes; an attribute
\* node has the id of its element.
AttributeNodes(es, name) ==
    Flatten([k \in 1..Len(es) |->
        LET as == SelectSeq(es[k].attrs, LAMBDA a : Lower(a[1]) = Lower(name))
        IN  [j \in 1..Len(as) |->
                Node(es[k].id, ATTRIBUTE_NODE, as[j][1], NoAttrs, as[j][2], <<>>)]])

\* selectNodeSet, lines 75-96: the expression evaluated on the document.
selectNodeSet(expression, doc) ==
    LET packages == ChildElements(doc, "packageconfiguration", "packages", "package")
        elements == [k \in 1..Len(packages) |-> packages[k].node]
        cs == bonsaiConfigPackagesSelector(doc)
    IN  CASE expression = "//PackageConfiguration/Packages/Package" -> XNodeSet(elements)
          [] expression = "//PackageConfiguration/Packages/Package/@id" ->
                XNodeSet(AttributeNodes(elements, "id"))
          [] expression = "//PackageConfiguration/Packages/text()" ->
                XNodeSet(bonsaiConfigPackagesIndentSelector(doc))
          [] expression = "//PackageConfiguration/Packages/node()" ->
                XNodeSet(Flatten([k \in 1..Len(cs) |-> cs[k].childNodes]))
          [] expression = "count(//PackageConfiguration/Packages/Package)" -> XNumber
          [] OTHER -> XBoolean

\* A value of the accessors: no node (null) or one node.
NoNode == <<>>

Selected(e, value) == [error |-> e, value |-> value]

\* the last node of the set for the first
checkedSelect1_last(expression, doc, expectedType) ==
    LET result == selectNodeSet(expression, doc)
    IN  IF result.constructor # "XNodeSet" THEN Selected("UnexpectedResultType", NoNode)
        ELSE IF result.nodes = <<>> THEN Selected("none", NoNode)
        ELSE LET resultNode == result.nodes[Len(result.nodes)]
             IN  IF expectedType = Null \/ resultNode.nodeType = expectedType
                 THEN Selected("none", <<resultNode>>)
                 ELSE Selected("UnexpectedNodeKind", NoNode)

\* checkedSelect1, lines 115-138; expectedType is Null for select1Node.
checkedSelect1(expression, doc, expectedType) ==
    LET result == selectNodeSet(expression, doc)
    IN  IF result.constructor # "XNodeSet" THEN Selected("UnexpectedResultType", NoNode)
        ELSE IF result.nodes = <<>> THEN Selected("none", NoNode)
        ELSE LET resultNode == result.nodes[1]
             IN  IF expectedType = Null \/ resultNode.nodeType = expectedType
                 THEN Selected("none", <<resultNode>>)
                 ELSE Selected("UnexpectedNodeKind", NoNode)

\* Lines 140-154: the four accessors, by the node type they expect.
ExpectedTypes == {Null, ELEMENT_NODE, ATTRIBUTE_NODE, TEXT_NODE}

InitSelect ==
    /\ osEOL = "\n"
    /\ xml \in RemoveTexts
    /\ roundTrip = NotRun
    /\ nugetConfigFile = <<>>
    /\ bonsaiConfigFile = <<>>
    /\ call = "select1"
    /\ pc = "select1"
    /\ args = <<>>
    /\ dom = parseXml(xml)
    /\ loc = NoLocals
    /\ error = "none"
    /\ fsLog = <<>>
    /\ installed = {}
    /\ original = <<>>
    /\ NoLog
    /\ NoJob

\* One call of an accessor: it returns a value or throws.
select1(expression, expectedType) ==
    /\ pc = "select1"
    /\ args' = <<expression, expectedType>>
    /\ \E s \in {checkedSelect1(expression, dom, expectedType)} :
           /\ error' = s.error
           /\ loc' = [value |-> s.value]
           /\ pc' = IF s.error = "none" THEN "done" ELSE "failed"
    /\ UNCHANGED <<modeVars, logVars, jobVars>>
    /\ UNCHANGED <<osEOL, xml, roundTrip, nugetConfigFile, bonsaiConfigFile, call,
                   dom, fsLog, installed, original>>

NextSelect ==
    \E expression \in Expressions, expectedType \in ExpectedTypes :
        select1(expression, expectedType)

SpecSelect == InitSelect /\ [][NextSelect]_vars

----------------------------------------------------------------------------
(* C22 *)

\* The nodes of the container the expression matches, whatever the order.
Matches(expression) ==
    LET c == bonsaiConfigPackagesSelector(dom)[1].childNodes
        IsPackage(n) == n.nodeType = ELEMENT_NODE /\ Lower(n.nodeName) = "package"
    IN  CASE expression = "//PackageConfiguration/Packages/Package" ->
                {c[k] : k \in {j \in 1..Len(c) : IsPackage(c[j])}}
          [] expression = "//PackageConfiguration/Packages/Package/@id" ->
                {Node(c[k].id, ATTRIBUTE_NODE, "id", NoAttrs,
                      AttrValueIn(c[k].attrs, "id"), <<>>) :
                    k \in {j \in 1..Len(c) : IsPackage(c[j])}}
          [] expression = "//PackageConfiguration/Packages/text()" ->
                {c[k] : k \in {j \in 1..Len(c) : c[j].nodeType = TEXT_NODE}}
          [] OTHER -> Range(c)

IsNodeSetExpression(expression) ==
    expression \notin {"count(//PackageConfiguration/Packages/Package)",
                       "boolean(//PackageConfiguration/Packages/Package)"}

\* C22: a call of select1Element, select1Attribute or select1Text with an
\* expression that gives no node set throws UnexpectedResultType; with one
\* that matches nothing it returns null and throws nothing; else the first
\* match in document order decides: of the expected kind it is returned, of
\* another kind the call throws UnexpectedNodeKind.
TypedSelectFirstMatch ==
    (call = "select1" /\ pc # "select1" /\ args[2] # Null) =>
        \A ms \in {Matches(args[1])} :
            IF ~IsNodeSetExpression(args[1])
            THEN error = "UnexpectedResultType"
            ELSE IF ms = {} THEN error = "none" /\ loc.value = NoNode
            ELSE \E first \in ms :
                    /\ \A m \in ms : first.id <= m.id
                    /\ IF first.nodeType = args[2]
                       THEN error = "none" /\ loc.value = <<first>>
                       ELSE error = "UnexpectedNodeKind"

\* select1Element threw for a container whose first child is a text node
\* and which has an element after it.
ElementAfterTextRefused ==
    /\ call = "select1"
    /\ args = <<"//PackageConfiguration/Packages/node()", ELEMENT_NODE>>
    /\ error = "UnexpectedNodeKind"
    /\ \E n \in Matches(args[1]) : n.nodeType = ELEMENT_NODE

----------------------------------------------------------------------------
(* addPackageSources on a NuGet.config whose entries are written <add> or  *)
(* <Add>, as NuGet reads both.                                             *)

\* <Add key="k" value="old-k" />
UpperAddEntry(k) == [AddEntry(k) EXCEPT !.name = "Add"]

WalkItems == {IndentText, AddEntry("A"), UpperAddEntry("A"), OtherEntry, ClearEntry}

WalkConfigs ==
    {DocumentText("configuration", <<"packageSources">>, <<items>>, PlainFormat) :
        items \in SeqsUpTo(WalkItems, MaxChildren)}

InitWalk ==
    /\ xml = <<>>
    /\ roundTrip = NotRun
    /\ osEOL = "\n"
    /\ nugetConfigFile \in WalkConfigs
    /\ bonsaiConfigFile = DefaultBonsaiConfig
    /\ installed = PackageDirectories
    /\ call = "none"
    /\ pc = "idle"
    /\ args = <<>>
    /\ dom = NoDoc
    /\ loc = NoLocals
    /\ error = "none"
    /\ fsLog = <<>>
    /\ original =
          [nuget |-> nugetConfigFile,
           bonsai |-> bonsaiConfigFile,
           installed |-> installed,
           sources |-> ContainerChildren(packageSourcesSelector(parseXml(nugetConfigFile))),
           packages |-> <<>>]
    /\ NoLog
    /\ NoJob

NextWalk ==
    \/ \E sources \in SourceLists : addPackageSources(sources)
    \/ addPackageSources_add
    \/ addPackageSources_remove
    \/ addPackageSources_write

SpecWalk == InitWalk /\ [][NextWalk]_vars

----------------------------------------------------------------------------
(* C23 *)

\* An add entry as NuGet reads it: an element called add, in any case, with
\* a key.
IsAddShaped(n) ==
    /\ n.nodeType = ELEMENT_NODE
    /\ Lower(n.nodeName) = "add"
    /\ AttrValueIn(n.attrs, "key") # <<>>

\* C23: a turn of the walk that visits an element fails with
\* MalformedContainer if and only if the element is not an add entry, the
\* names of the element and of its key attribute compared without regard
\* to case.
WalkRejectsOnlyOtherElements ==
    [][(pc = "removeReplaced" /\ loc.node # Null) =>
          \A c \in {CurrentSources} : \A node \in {c[IndexOf(c, loc.node)]} :
              node.nodeType = ELEMENT_NODE =>
                  ((error' = "MalformedContainer") <=> ~IsAddShaped(node))]_vars

----------------------------------------------------------------------------
(* C24 *)

\* main is past the restore of the cache.
Restored == cache.primaryKey # ""

\* The key cache.restoreCache came back with in this invocation ("" if it
\* was not called or found nothing), and whether tar extracted the tarball.
RestoredUnder == IF FirstEvent("restoreCache") # 0 THEN cache.hit ELSE ""
Extracted == FirstEvent("tar") # 0

\* C24: once main has restored the cache, the state and the output cache-hit
\* are full exactly if a tarball came back under the primary key and was
\* extracted, partial exactly if one came back under another key and was
\* extracted, and none otherwise; the key is saved as CacheRestoredFrom in
\* the first two cases only.
StateTellsWhatWasRestored ==
    Restored =>
        /\ cache.cacheHit = state(cache.primaryKey, cache.restoredFrom)
        /\ cache.cacheHit = "full" <=>
              (RestoredUnder = cache.primaryKey /\ Extracted)
        /\ cache.cacheHit = "partial" <=>
              (RestoredUnder \notin {"", cache.primaryKey} /\ Extracted)
        /\ cache.cacheHit \in {"full", "partial", "none"}
        /\ cache.restoredFrom =
              (IF cache.cacheHit \in {"full", "partial"} THEN RestoredUnder ELSE "")

\* A tarball came back under another key and tar could not extract it.
PartialHitNotExtracted ==
    /\ Restored
    /\ RestoredUnder = "partial"
    /\ FirstEvent("tarFailed") # 0
    /\ cache.cacheHit = "none"

----------------------------------------------------------------------------
(* C25 *)

\* The children of the container the running call inserts into, and the
\* insertion point it computed before its loop.
ContainerOfCall ==
    IF call = "addPackageSources" THEN CurrentSources ELSE CurrentPackages

AnchorIndex == IndexOf(ContainerOfCall, loc.insertionPoint)

\* C25 as claimed: the insertion point of a call, if it is a node, is a
\* child of the call's container after every mutation of the call.
AnchorStaysChild ==
    ((Merging \/ Upserting) /\ loc.insertionPoint # Null) => AnchorIndex # 0

\* C25, amended: the insertion point is a child of the container at every
\* insertBefore against it.  In addPackageSources it is a child as long as
\* sources are inserted, with the nodes inserted so far, and no others,
\* between the last clear marker and it; only the walk, which comes after
\* the last insertion, can put a comment in its place.  In injectPackages it
\* stays the last child of the container through the whole call.
AnchorValidAtEveryInsertion ==
    /\ (Merging /\ loc.insertionPoint # Null) =>
          \A c \in {CurrentSources} : \A a \in {IndexOf(c, loc.insertionPoint)} :
              /\ pc = "addSources" => a # 0
              /\ a # 0 =>
                    /\ a = ClearIndex(c) + 2 * (loc.i - 1) + 1
                    /\ \A k \in (ClearIndex(c) + 1)..(a - 1) : IsNew(c[k])
              /\ a = 0 =>
                    /\ loc.i = Len(args) + 1
                    /\ \E k \in 1..Len(c) :
                          /\ c[k].nodeType = COMMENT_NODE
                          /\ IsNew(c[k])
                          /\ k = ClearIndex(c) + 2 * Len(args) + 1
    /\ (Upserting /\ loc.insertionPoint # Null) =>
          \A c \in {CurrentPackages} :
              /\ c # <<>>
              /\ c[Len(c)].id = loc.insertionPoint
              /\ c[Len(c)].nodeType = TEXT_NODE

\* addPackageSources put two sources before an entry one of them replaces,
\* and the walk then made a comment of that entry, the insertion point.
AnchorCommentedOutAfterInsertions ==
    /\ Merging
    /\ pc = "done"
    /\ Len(args) = 2
    /\ loc.insertionPoint # Null
    /\ AnchorIndex = 0

----------------------------------------------------------------------------
(* C26 *)

\* Positions after the last clear marker of the active entries with this
\* name: elements called add, in any case, with this key.
ActiveEntries(c, name) ==
    {k \in (ClearIndex(c) + 1)..Len(c) :
        /\ c[k].nodeType = ELEMENT_NODE
        /\ Lower(c[k].nodeName) = "add"
        /\ AttrValueIn(c[k].attrs, "key") = name}

\* C26: after a successful addPackageSources every input source has exactly
\* one active entry with its name among the children after the last clear
\* marker, and it is the entry this call inserted for it; the node the walk
\* stands at, visits next or stopped at with an error is never a node the
\* call made.
OneActiveEntryPerSource ==
    /\ (call = "addPackageSources" /\ pc = "done") =>
          \A c \in {CurrentSources} : \A j \in 1..Len(args) :
              \E k \in 1..Len(c) :
                  /\ ActiveEntries(c, args[j].name) = {k}
                  /\ IsNew(c[k])
                  /\ IsEntryOf(c[k], args[j])
    /\ (Merging /\ loc.node # Null) =>
          \A c \in {CurrentSources} :
              /\ IndexOf(c, loc.node) # 0
              /\ ~IsNew(c[IndexOf(c, loc.node)])

\* A call with two sources succeeded on a container that had an active
\* entry of one of them after the last clear marker, and another before it.
OneActiveAfterDisabling ==
    /\ call = "addPackageSources"
    /\ pc = "done"
    /\ Len(args) = 2
    /\ \E m \in (ClearIndex(OriginalSources) + 1)..Len(OriginalSources) :
           CollidesWith(OriginalSources[m], TRUE)
    /\ ClearIndex(OriginalSources) > 0

----------------------------------------------------------------------------
(* C27 *)

\* The ids of the entries of c, and of the packages of a batch, as the
\* package manager knows them: without regard to case.
IdOf(n) == ToUpperCase(AttrValueIn(n.attrs, "id"))

EntryIds(c) == {IdOf(c[k]) : k \in {j \in 1..Len(c) : IsPackageEntry(c[j])}}

BatchIds(nugetPackages) ==
    {ToUpperCase(nugetPackages[k].id) : k \in 1..Len(nugetPackages)}

\* No two entries of c have the same id.
UniqueIds(c) == Cardinality(EntryIds(c)) = Len(PackageEntries(c))

\* C27: a successful injectPackages on a container in which no two entries
\* have the same id leaves a container in which no two entries have the
\* same id, with one entry more for every id of the batch that no entry had.
UpsertKeepsIdsUnique ==
    (Upserting /\ pc = "done" /\ UniqueIds(OriginalPackages)) =>
        \A c \in {CurrentPackages} :
            /\ UniqueIds(c)
            /\ Len(PackageEntries(c)) =
                  Len(PackageEntries(OriginalPackages))
                      + Cardinality(BatchIds(args) \ EntryIds(OriginalPackages))

\* The same with ids compared letter by letter, as packageSelector does.
ExactIds(c) ==
    {AttrValueIn(c[k].attrs, "id") : k \in {j \in 1..Len(c) : IsPackageEntry(c[j])}}

UpsertKeepsExactIdsUnique ==
    (Upserting /\ pc = "done"
        /\ Cardinality(ExactIds(OriginalPackages)) = Len(PackageEntries(OriginalPackages)))
    => \A c \in {CurrentPackages} :
           /\ Cardinality(ExactIds(c)) = Len(PackageEntries(c))
           /\ Len(PackageEntries(c)) =
                 Len(PackageEntries(OriginalPackages))
                     + Cardinality({args[k].id : k \in 1..Len(args)}
                                       \ ExactIds(OriginalPackages))

----------------------------------------------------------------------------
(* C28 *)

\* What main does to an environment: Bonsai is unpacked into it, its
\* NuGet.config is written, it is bootstrapped.
Modifications == {"installBonsai", "addPackageSources", "copyInjectedPackages", "bootstrap"}

Modified == \E k \in 1..Len(events) : events[k] \in Modifications

\* Every path of the glob is an environment that loads, there is one at
\* least, and with packages to inject every package file loads and no two
\* of them have the same id.
InputsLoad ==
    /\ inputs.environmentPaths # <<>>
    /\ \A k \in 1..Len(inputs.environmentPaths) : inputs.environmentPaths[k].valid
    /\ inputs.injectPackages =>
          /\ \A k \in 1..Len(inputs.packagePaths) : PackageId(inputs.packagePaths[k]) # ""
          /\ \A j, k \in 1..Len(inputs.packagePaths) :
                j # k => PackageId(inputs.packagePaths[j]) # PackageId(inputs.packagePaths[k])

\* C28: main modifies an environment only if the environments and the
\* packages to inject all loaded; if they did not, main never gets to the
\* restore of the cache or beyond, and it ends failed with no environment
\* modified.
ModifiesOnlyAfterInputsLoaded ==
    /\ Modified => InputsLoad
    /\ ~InputsLoad =>
          /\ stage \in {"main", "enumerateEnvironments", "enumeratePackages",
                        "finally", "exited", "postExited"}
          /\ stage \in {"finally", "exited", "postExited"} => exitCode = 1

\* Two valid environments and two files of the package Foo: main has ended
\* failed and did nothing.
FailedOnRepeatedPackageId ==
    /\ stage = "exited"
    /\ exitCode = 1
    /\ events = <<>>
    /\ Len(environments) = 2
    /\ inputs.packagePaths = <<"Foo.1.0.nupkg", "Foo.2.0.nupkg">>

----------------------------------------------------------------------------
(* C29 *)

BootstrapFailed == \E k \in 1..Len(bootstraps) : bootstraps[k].errorCode # 0

\* C29: the environments are bootstrapped one after the other in the
\* ascending order of their relative paths; a bootstrap with an exit code
\* other than 0 is the last one; and a run that got to bootstrapping is
\* failed exactly when a bootstrap failed, having else bootstrapped every
\* environment before it ends.
BootstrapsInOrderUntilFailure ==
    /\ Len(bootstraps) <= Len(environments)
    /\ \A k \in 1..Len(bootstraps) : bootstraps[k].relativePath = environments[k]
    /\ bootstraps # <<>> =>
          \A j, k \in 1..Len(environments) :
              j < k => stringCompare(environments[j], environments[k])
    /\ \A k \in 1..Len(bootstraps) :
          bootstraps[k].errorCode # 0 => k = Len(bootstraps) /\ stage # "bootstrap"
    /\ bootstraps # <<>> => (exitCode = 1 <=> BootstrapFailed)
    /\ (bootstraps # <<>> /\ stage # "bootstrap" /\ ~BootstrapFailed)
          => Len(bootstraps) = Len(environments)

\* The glob gave environment 2 before environment 1; environment 1 was
\* bootstrapped first and failed, environment 2 was never bootstrapped and
\* the run has ended failed.
SecondNotBootstrappedAfterFailure ==
    /\ stage = "exited"
    /\ Len(inputs.environmentPaths) = 2
    /\ inputs.environmentPaths[1].relativePath = 2
    /\ environments = <<1, 2>>
    /\ bootstraps = <<[relativePath |-> 1, errorCode |-> 1]>>
    /\ exitCode = 1

----------------------------------------------------------------------------
(* C30 *)

\* post has got to uploadCache: caching is enabled, main saved the primary
\* key and succeeded, and the state of the cache is not Full.
ReachedUploadCache ==
    /\ stage = "postExited"
    /\ inputs.enableCache
    /\ exitCode = 0
    /\ cache.primaryKey # ""
    /\ state(cache.primaryKey, cache.restoredFrom) # "full"

\* C30: a post that gets to uploadCache with caching enabled, the state of
\* the cache not Full and main succeeded finds the staged tarball and does
\* not end with the error 'Staged cache file does not exist'.
UploadFindsStagedTarball ==
    ReachedUploadCache => events[Len(events)] # "Error"

====
